---- MODULE Spec2Model ----
(***************************************************************************)
(* Argumentation kernel of the repository: attack filter, grounded         *)
(* extension solver, planner, the single-shot orchestrators (landing,      *)
(* overtemp) and the queue loop of the multi-step scraper scenario.        *)
(*                                                                         *)
(* Argument ids are strings in the source.  The model represents an id by  *)
(* its rank in the lexical order of the id strings in use, so that the     *)
(* planner's final tie-break (ascending id) is the order of the ranks.     *)
(* The argument mapping `args' (Dict[str, Argument]) is a function from    *)
(* ids to records holding the Argument fields the kernel reads.            *)
(***************************************************************************)
EXTENDS Integers, Sequences, FiniteSets, TLC

VARIABLES
    pc,             \* position of the driver / orchestrator
    args,           \* ArgFramework.args (core/arguments.py:31): id -> Argument
    attacks,        \* ArgFramework.attacks (core/arguments.py:32): set of
                    \* <<attacker, target>>
    ext,            \* result of the accepted-set computation
    attacks_eff,    \* result of the priority filter
    attacks_eff2,   \* result of filtering attacks_eff again
    ids,            \* order_plan's `ids' argument, in iteration order
    steps,          \* result of order_plan
    ablation,       \* value of get_ablation() for the run
    policy,         \* scenario2_landing.py:160: the policy selected
    ok,             \* scenario2_landing.py:184: outcome of the verification
    status,         \* status of the run's log_metrics record ("" = none written)
    af_iters,       \* scenario2_landing.py:122: reasoning iterations completed
    steps_executed, \* scenario2_landing.py:123: actuations logged
    attacks_raw,    \* the attack set the generator returned (af0.attacks)
    actuated,       \* arg ids of the "actuate" log records, in order
    verified,       \* number of "verify" log records
    queue,          \* scenario3_scraper.py:90: arg ids still to execute
    facts,          \* scenario3_scraper.py:61: the fact set
    iters,          \* scenario3_scraper.py:91: loop iterations started
    max_iters,      \* scenario3_scraper.py:92: the iteration budget
    emitted,        \* the run's final emit_ok / emit_fail report ("" = none)
    check,          \* core/verify.py: the verifier call in progress, its
                    \* parameters, locals and result
    log,            \* core/logging_utils.py:80: the records log_event wrote
                    \* to the run's event log, in order (kind and status)
    environ         \* core/ablation.py:7: os.environ's entry ISL_ABLATION

vars == <<pc, args, attacks, ext, attacks_eff, attacks_eff2, ids, steps,
          ablation, policy, ok, status, af_iters, steps_executed,
          attacks_raw, actuated, verified, queue, facts, iters, max_iters,
          emitted, check, log, environ>>

(* what the single-shot orchestrators leave alone: the queue loop's and the *)
(* verifiers' variables, and the environment                                *)
queue_vars == <<queue, facts, iters, max_iters, emitted, check, environ>>

all_but_check == <<args, attacks, ext, attacks_eff, attacks_eff2, ids, steps,
                   ablation, policy, ok, status, af_iters, steps_executed,
                   attacks_raw, actuated, verified, queue, facts, iters,
                   max_iters, emitted, log, environ>>

orchestrator_vars == <<ablation, policy, ok, status, af_iters, steps_executed,
                       attacks_raw, actuated, verified, queue, facts, iters,
                       max_iters, emitted, check, log, environ>>

---------------------------------------------------------------------------
(* Bounds of the model *)

NumIds == 3
MaxAttacks == 3
MaxPrio == 1
MaxDeadline == 1

Ids == 1..NumIds

(* The ids of the demo framework, by lexical rank:                         *)
(* "A_cool" < "A_heat" < "A_wait".                                         *)
A_cool == 1
A_heat == 2
A_wait == 3

---------------------------------------------------------------------------
(* Helpers for drawing bounded inputs *)

RECURSIVE SubsetsUpTo(_, _)
SubsetsUpTo(S, k) ==
    IF k = 0 THEN {{}}
    ELSE LET P == SubsetsUpTo(S, k - 1)
         IN  P \cup {T \cup {x} : T \in P, x \in S}

RECURSIVE SeqsOver(_, _)
SeqsOver(S, n) ==
    IF n = 0 THEN {<<>>}
    ELSE LET P == SeqsOver(S, n - 1)
         IN  P \cup {Append(s, x) : s \in {p \in P : Len(p) = n - 1}, x \in S}

Range(s) == {s[i] : i \in 1..Len(s)}

RECURSIVE EnumerationsOf(_)
EnumerationsOf(S) ==
    IF S = {} THEN {<<>>}
    ELSE UNION {{<<x>> \o p : p \in EnumerationsOf(S \ {x})} : x \in S}

RECURSIVE Ascending(_)
Ascending(S) ==
    IF S = {} THEN <<>>
    ELSE LET m == CHOOSE x \in S : \A y \in S : x <= y
         IN  <<m>> \o Ascending(S \ {m})

IsInjective(s) == \A i, j \in 1..Len(s) : s[i] = s[j] => i = j

Argument(p, d) == [priority |-> p, deadline_ms |-> d]

---------------------------------------------------------------------------
(* core/af_solver.py *)

Attackers(af_attacks, x) == {e[1] : e \in {f \in af_attacks : f[2] = x}}

(* Variants of grounded_extension with a seeded fault: the properties below *)
(* are sensitive to each of them.                                           *)
grounded_extension_all_keys(af_args, af_attacks) ==
    DOMAIN af_args

grounded_extension_sources(af_args, af_attacks) ==
    LET attacked == {e[1] : e \in af_attacks}
    IN  DOMAIN af_args \ attacked

grounded_extension_skip_self_attacks(af_args, af_attacks) ==
    LET attacked == {e[2] : e \in {f \in af_attacks : f[1] # f[2]}}
    IN  DOMAIN af_args \ attacked

grounded_extension_attacked(af_args, af_attacks) ==
    LET attacked == {e[2] : e \in af_attacks}
    IN  attacked \cap DOMAIN af_args

grounded_extension(af_args, af_attacks) ==
    LET attacked == {e[2] : e \in af_attacks}
        no_incoming == DOMAIN af_args \ attacked
    IN  no_incoming

(* Variants of the filter with a seeded fault: `>' for `>=', and the kept   *)
(* pair stored reversed.                                                    *)
RECURSIVE FilterStrictLoop(_, _, _)
FilterStrictLoop(a, todo, out) ==
    IF todo = {} THEN out
    ELSE LET e == CHOOSE x \in todo : TRUE
             pa == a[e[1]].priority
             pt == a[e[2]].priority
         IN  FilterStrictLoop(a, todo \ {e},
                              IF pa > pt THEN out \cup {e} ELSE out)

RECURSIVE FilterSwappedLoop(_, _, _)
FilterSwappedLoop(a, todo, out) ==
    IF todo = {} THEN out
    ELSE LET e == CHOOSE x \in todo : TRUE
             pa == a[e[1]].priority
             pt == a[e[2]].priority
         IN  FilterSwappedLoop(a, todo \ {e},
                               IF pa >= pt THEN out \cup {<<e[2], e[1]>>} ELSE out)

(* The loop of filter_attacks_by_priority over the attack pairs. *)
RECURSIVE FilterLoop(_, _, _)
FilterLoop(a, todo, out) ==
    IF todo = {} THEN out
    ELSE LET e == CHOOSE x \in todo : TRUE
             pa == a[e[1]].priority
             pt == a[e[2]].priority
         IN  FilterLoop(a, todo \ {e},
                        IF pa >= pt THEN out \cup {e} ELSE out)

filter_attacks_by_priority_strict(a, atts) ==
    FilterStrictLoop(a, atts, {})

filter_attacks_by_priority_swapped(a, atts) ==
    FilterSwappedLoop(a, atts, {})

filter_attacks_by_priority(a, atts) ==
    FilterLoop(a, atts, {})

---------------------------------------------------------------------------
(* core/ablation.py *)

Ablations == {"none", "no_af", "no_diag", "no_priority"}

(* A value of the environment is a sequence of characters; the names of    *)
(* the modes, spelt out.                                                   *)
Spell ==
    [none |-> <<"n", "o", "n", "e">>,
     no_af |-> <<"n", "o", "_", "a", "f">>,
     no_diag |-> <<"n", "o", "_", "d", "i", "a", "g">>,
     no_priority |-> <<"n", "o", "_", "p", "r", "i", "o", "r", "i", "t", "y">>]

Whitespace == {" ", "\t"}

UpperOf ==
    [n |-> "N", o |-> "O", e |-> "E", a |-> "A", f |-> "F", d |-> "D",
     i |-> "I", g |-> "G", p |-> "P", r |-> "R", t |-> "T", y |-> "Y",
     x |-> "X"]

(* str.lower *)
lower(v) ==
    [k \in 1..Len(v) |->
        IF \E c \in DOMAIN UpperOf : UpperOf[c] = v[k]
        THEN CHOOSE c \in DOMAIN UpperOf : UpperOf[c] = v[k]
        ELSE v[k]]

(* str.strip *)
RECURSIVE lstrip(_)
lstrip(v) == IF v # <<>> /\ v[1] \in Whitespace THEN lstrip(Tail(v)) ELSE v

RECURSIVE rstrip(_)
rstrip(v) ==
    IF v # <<>> /\ v[Len(v)] \in Whitespace
    THEN rstrip(SubSeq(v, 1, Len(v) - 1))
    ELSE v

strip(v) == rstrip(lstrip(v))

(* os.environ with and without the entry ISL_ABLATION *)
Unset == [set |-> FALSE, value |-> <<>>]

Setenv(v) == [set |-> TRUE, value |-> v]

(* lines 3-10 *)
get_ablation_without_strip(env) ==
    LET v == lower(IF env.set THEN env.value ELSE Spell["none"])
    IN  IF \E w \in Ablations : Spell[w] = v
        THEN CHOOSE w \in Ablations : Spell[w] = v
        ELSE "none"

get_ablation(env) ==
    LET v == lower(strip(IF env.set THEN env.value ELSE Spell["none"]))
    IN  IF \E w \in Ablations : Spell[w] = v
        THEN CHOOSE w \in Ablations : Spell[w] = v
        ELSE "none"

(* lines 12-14, on the value get_ablation returned *)
is_no_af_or_no_diag == ablation \in {"no_af", "no_diag"}

is_no_af == ablation = "no_af"

is_no_diag_misspelt == ablation = "nodiag"

is_no_diag == ablation = "no_diag"

is_no_priority == ablation = "no_priority"

---------------------------------------------------------------------------
(* The pure-function drivers below run no orchestrator. *)
NoCheck == [name |-> "none"]

(* core/logging_utils.py: a record of the event log.  Of the data of a     *)
(* record the model keeps the status ("" when the record has none).        *)
LogRecord(kind, st) == [kind |-> kind, status |-> st]

Event(kind) == LogRecord(kind, "")

(* log_event appends one line to the file and flushes it. *)
log_event(l, kind, st) == Append(l, LogRecord(kind, st))

(* The "verify" record of a check that passed or failed. *)
VerifyRecord(passed) == LogRecord("verify", IF passed THEN "PASS" ELSE "FAIL")

NoQueue ==
    /\ queue = <<>>
    /\ facts = {}
    /\ iters = 0
    /\ max_iters = 0
    /\ emitted = ""
    /\ check = NoCheck

NoRun ==
    /\ ablation = "none"
    /\ policy = "None"
    /\ ok = FALSE
    /\ status = ""
    /\ af_iters = 0
    /\ steps_executed = 0
    /\ attacks_raw = {}
    /\ actuated = <<>>
    /\ verified = 0
    /\ log = <<>>
    /\ environ = Unset
    /\ NoQueue

---------------------------------------------------------------------------
(* Driver of the solver and the filter: the framework is drawn from the    *)
(* bounded inputs, then each function is applied to it.                    *)

InitAF ==
    /\ pc = "af_input"
    /\ \E K \in SUBSET Ids :
         /\ attacks \in SubsetsUpTo(K \X K, MaxAttacks)
         /\ args \in [K -> {Argument(p, 0) : p \in 0..MaxPrio}]
    /\ ext = {}
    /\ attacks_eff = {}
    /\ attacks_eff2 = {}
    /\ ids = <<>>
    /\ steps = <<>>
    /\ NoRun

Solve ==
    /\ pc = "af_input"
    /\ ext' = grounded_extension(args, attacks)
    /\ pc' = "af_solved"
    /\ UNCHANGED <<args, attacks, attacks_eff, attacks_eff2, ids, steps>>
    /\ UNCHANGED orchestrator_vars

Filter ==
    /\ pc = "af_input"
    /\ attacks_eff' = filter_attacks_by_priority(args, attacks)
    /\ pc' = "af_filtered"
    /\ UNCHANGED <<args, attacks, ext, attacks_eff2, ids, steps>>
    /\ UNCHANGED orchestrator_vars

Refilter ==
    /\ pc = "af_filtered"
    /\ attacks_eff2' = filter_attacks_by_priority(args, attacks_eff)
    /\ pc' = "af_refiltered"
    /\ UNCHANGED <<args, attacks, ext, attacks_eff, ids, steps>>
    /\ UNCHANGED orchestrator_vars

NextAF == Solve \/ Filter \/ Refilter

SpecAF == InitAF /\ [][NextAF]_vars

---------------------------------------------------------------------------
(* core/planner.py *)

PlanStep_fields_swapped(i, p, d) ==
    [arg_id |-> i, priority |-> d, deadline_ms |-> p]

PlanStep(i, p, d) == [arg_id |-> i, priority |-> p, deadline_ms |-> d]

RECURSIVE TupleLess(_, _)
TupleLess(k1, k2) ==
    IF k1 = <<>> \/ k2 = <<>> THEN k1 = <<>> /\ k2 # <<>>
    ELSE \/ Head(k1) < Head(k2)
         \/ Head(k1) = Head(k2) /\ TupleLess(Tail(k1), Tail(k2))

SortKey(s) == <<s.deadline_ms, -s.priority, s.arg_id>>

SortKeyAscendingPriority(s) == <<s.deadline_ms, s.priority, s.arg_id>>

SortKeyWithoutId(s) == <<s.deadline_ms, -s.priority>>

(* list.sort(key=...) computes each element's key once and sorts the       *)
(* <<key, element>> pairs by key alone; the sort is stable: an element     *)
(* goes after every element already placed whose key is not greater.       *)
InsertStable(sorted, x) ==
    LET n == Cardinality({i \in 1..Len(sorted) :
                             ~TupleLess(x[1], sorted[i][1])})
    IN  SubSeq(sorted, 1, n) \o <<x>> \o SubSeq(sorted, n + 1, Len(sorted))

RECURSIVE SortLoop(_, _)
SortLoop(todo, sorted) ==
    IF todo = <<>> THEN sorted
    ELSE SortLoop(Tail(todo), InsertStable(sorted, Head(todo)))

SortedByKey(keyed) ==
    LET sorted == SortLoop(keyed, <<>>)
    IN  [k \in 1..Len(sorted) |-> sorted[k][2]]

RECURSIVE StepsOf(_, _)
StepsOf(a, id_seq) ==
    IF id_seq = <<>> THEN <<>>
    ELSE LET i == Head(id_seq)
         IN  IF i \in DOMAIN a
             THEN <<PlanStep(i, a[i].priority, a[i].deadline_ms)>>
                      \o StepsOf(a, Tail(id_seq))
             ELSE StepsOf(a, Tail(id_seq))

(* Variants of order_plan with a seeded fault in the sort key. *)
order_plan_ascending_priority(a, id_seq) ==
    LET unsorted == StepsOf(a, id_seq)
    IN  SortedByKey([k \in 1..Len(unsorted) |->
                        <<SortKeyAscendingPriority(unsorted[k]), unsorted[k]>>])

order_plan_without_id(a, id_seq) ==
    LET unsorted == StepsOf(a, id_seq)
    IN  SortedByKey([k \in 1..Len(unsorted) |->
                        <<SortKeyWithoutId(unsorted[k]), unsorted[k]>>])

order_plan(a, id_seq) ==
    LET unsorted == StepsOf(a, id_seq)
    IN  SortedByKey([k \in 1..Len(unsorted) |->
                        <<SortKey(unsorted[k]), unsorted[k]>>])

---------------------------------------------------------------------------
(* Driver of the planner: an argument mapping and an enumeration of ids    *)
(* are drawn from the bounded inputs, then order_plan is applied.  Every   *)
(* caller passes a set of ids, so `ids' is an enumeration without repeats; *)
(* it may name ids that are not keys of the mapping.                       *)

IdEnumerations == {s \in SeqsOver(Ids, NumIds) : IsInjective(s)}

PlanArguments ==
    {Argument(p, d) : p \in 0..MaxPrio, d \in 0..MaxDeadline}

InitPlan ==
    /\ pc = "plan_input"
    /\ \E K \in SUBSET Ids :
         args \in [K -> PlanArguments]
    /\ ids \in IdEnumerations
    /\ attacks = {}
    /\ ext = {}
    /\ attacks_eff = {}
    /\ attacks_eff2 = {}
    /\ steps = <<>>
    /\ NoRun

Plan ==
    /\ pc = "plan_input"
    /\ steps' = order_plan(args, ids)
    /\ pc' = "planned"
    /\ UNCHANGED <<args, attacks, ext, attacks_eff, attacks_eff2, ids>>
    /\ UNCHANGED orchestrator_vars

NextPlan == Plan

SpecPlan == InitPlan /\ [][NextPlan]_vars

---------------------------------------------------------------------------
(* Driver of core/ablation.py: ISL_ABLATION is unset, or holds one of the   *)
(* words below with up to MaxUpper letters in upper case and up to MaxPad   *)
(* whitespace characters on either side; then get_ablation reads it.        *)
MaxUpper == 2
MaxPad == 1

Words ==
    {Spell[w] : w \in Ablations}
    \cup {<<>>, <<"n", "o", "d", "i", "a", "g">>,
          <<"n", "o", " ", "a", "f">>, <<"n", "o", "_", "a", "f", "x">>}

Cased(w, S) ==
    [k \in 1..Len(w) |->
        IF k \in S /\ w[k] \in DOMAIN UpperOf THEN UpperOf[w[k]] ELSE w[k]]

Pads == UNION {[1..k -> Whitespace] : k \in 0..MaxPad}

InitAblation ==
    /\ pc = "ab_start"
    /\ \/ environ = Unset
       \/ \E w \in Words, left \in Pads, right \in Pads :
            \E S \in SubsetsUpTo(1..Len(w), MaxUpper) :
               environ = Setenv(left \o Cased(w, S) \o right)
    /\ args = << >>
    /\ attacks = {}
    /\ ext = {}
    /\ attacks_eff = {}
    /\ attacks_eff2 = {}
    /\ ids = <<>>
    /\ steps = <<>>
    /\ ablation = "none"
    /\ policy = "None"
    /\ ok = FALSE
    /\ status = ""
    /\ af_iters = 0
    /\ steps_executed = 0
    /\ attacks_raw = {}
    /\ actuated = <<>>
    /\ verified = 0
    /\ log = <<>>
    /\ NoQueue

(* demos/scenario2_landing.py line 127: ablation = get_ablation() *)
AB_Read ==
    /\ pc = "ab_start"
    /\ ablation' = get_ablation(environ)
    /\ pc' = "ab_read"
    /\ UNCHANGED <<args, attacks, ext, attacks_eff, attacks_eff2, ids, steps,
                   policy, ok, status, af_iters, steps_executed, attacks_raw,
                   actuated, verified, log>>
    /\ UNCHANGED queue_vars

NextAblation == AB_Read

SpecAblation == InitAblation /\ [][NextAblation]_vars

---------------------------------------------------------------------------
(* demos/scenario2_landing.py: main.                                       *)
(*                                                                         *)
(* generate_landing_AF is imported from domains/drone/rules.py, which does *)
(* not define it.  The scenario reads the ids A_policy_aggr and            *)
(* A_policy_cons with set_policy actions from its result; their            *)
(* priorities, deadlines and attacks are left open here.                   *)

A_policy_aggr == 1
A_policy_cons == 2

(* The id "D_<x>" of a diagnosis argument sorts after every "A_..." id. *)
DiagId(x) == NumIds + x

PolicyArgument(p, d, name) ==
    [priority |-> p, deadline_ms |-> d,
     action |-> [name |-> "set_policy", params |-> [name |-> name]]]

generate_landing_AF ==
    {[args |-> (A_policy_aggr :> PolicyArgument(pa, da, "aggressive")) @@
               (A_policy_cons :> PolicyArgument(pc_, dc, "conservative")),
      attacks |-> R] :
        pa \in 0..MaxPrio, da \in 0..MaxDeadline,
        pc_ \in 0..MaxPrio, dc \in 0..MaxDeadline,
        R \in SubsetsUpTo({A_policy_aggr, A_policy_cons}
                              \X {A_policy_aggr, A_policy_cons}, MaxAttacks)}

InitLanding ==
    /\ pc = "l_reason"
    /\ ablation \in Ablations
    /\ \E af0 \in generate_landing_AF :
         /\ args = af0.args
         /\ attacks = af0.attacks
         /\ attacks_raw = af0.attacks
    /\ ext = {}
    /\ attacks_eff = {}
    /\ attacks_eff2 = {}
    /\ ids = <<>>
    /\ steps = <<>>
    /\ policy = "None"
    /\ ok = FALSE
    /\ status = ""
    /\ af_iters = 0
    /\ steps_executed = 0
    /\ actuated = <<>>
    /\ verified = 0
    /\ log = <<>>
    /\ environ = Setenv(Spell[ablation])
    /\ NoQueue

(* lines 127-157: the configuration and the sensing are logged, then the   *)
(* first reasoning pass: filter (unless no_priority), solve (unless no_af), *)
(* plan.  Each `with span' block writes its "span" record when it is left.  *)
(* order_plan iterates the set `ext' in an order the runtime chooses.       *)
L_Reason ==
    /\ pc = "l_reason"
    /\ attacks_eff' = IF is_no_priority THEN attacks_raw
                      ELSE filter_attacks_by_priority(args, attacks_raw)
    /\ IF is_no_af
       THEN /\ ext' = DOMAIN args
            /\ attacks' = {}
       ELSE /\ attacks' = attacks_eff'
            /\ ext' = grounded_extension(args, attacks_eff')
    /\ af_iters' = af_iters + 1
    /\ ids' \in EnumerationsOf(ext')
    /\ steps' = order_plan(args, ids')
    /\ log' = log \o <<Event("config"), Event("sense"), Event("span"),
                        Event("arguments"), Event("grounded_extension"),
                        Event("plan"), Event("span")>>
    /\ pc' = "l_act"
    /\ UNCHANGED <<args, attacks_eff2, ablation, policy, ok, status, steps_executed,
                   attacks_raw, actuated, verified>>
    /\ UNCHANGED queue_vars

LastSetPolicy(a, plan) ==
    LET hits == {k \in 1..Len(plan) : a[plan[k].arg_id].action.name = "set_policy"}
    IN  IF hits = {} THEN 0 ELSE CHOOSE k \in hits : \A j \in hits : k >= j

FirstSetPolicy(a, plan) ==
    LET hits == {k \in 1..Len(plan) : a[plan[k].arg_id].action.name = "set_policy"}
    IN  IF hits = {} THEN 0 ELSE CHOOSE k \in hits : \A j \in hits : k <= j

(* lines 159-173: the first set_policy step of the plan selects the policy *)
L_Act ==
    /\ pc = "l_act"
    /\ LET k == FirstSetPolicy(args, steps)
       IN  IF k = 0
           THEN /\ status' = "FAIL"
                /\ log' = log_event(log, "metrics", "FAIL")
                /\ pc' = "l_done"
                /\ UNCHANGED <<policy, steps_executed, actuated>>
           ELSE /\ policy' = args[steps[k].arg_id].action.params.name
                /\ actuated' = Append(actuated, steps[k].arg_id)
                /\ log' = log \o <<Event("actuate"), Event("span")>>
                /\ steps_executed' = steps_executed + 1
                /\ pc' = "l_verify"
                /\ UNCHANGED status
    /\ UNCHANGED <<args, attacks, ext, attacks_eff, attacks_eff2, ids, steps,
                   ablation, ok, af_iters, attacks_raw, verified>>
    /\ UNCHANGED queue_vars

(* lines 175-201: simulate, verify; PASS, or FAIL without diagnosis, ends   *)
(* the run.  The simulation's outcome is the environment's.                *)
L_Verify_always_reports_PASS ==
    /\ pc = "l_verify"
    /\ \E result \in BOOLEAN :
         /\ ok' = result
         /\ verified' = verified + 1
         /\ IF result \/ is_no_diag
            THEN /\ status' = "PASS"
                 /\ log' = log \o <<Event("span"), Event("simulate"),
                                     Event("span"), VerifyRecord(result),
                                     LogRecord("metrics", "PASS")>>
                 /\ pc' = "l_done"
            ELSE /\ pc' = "l_diagnose"
                 /\ log' = log \o <<Event("span"), Event("simulate"),
                                     Event("span"), VerifyRecord(result)>>
                 /\ UNCHANGED status
    /\ UNCHANGED <<args, attacks, ext, attacks_eff, attacks_eff2, ids, steps,
                   ablation, policy, af_iters, steps_executed, attacks_raw,
                   actuated>>
    /\ UNCHANGED queue_vars

L_Verify ==
    /\ pc = "l_verify"
    /\ \E result \in BOOLEAN :
         /\ ok' = result
         /\ verified' = verified + 1
         /\ IF result \/ is_no_diag
            THEN /\ status' = IF result THEN "PASS" ELSE "FAIL"
                 /\ log' = log \o <<Event("span"), Event("simulate"),
                                     Event("span"), VerifyRecord(result),
                                     LogRecord("metrics", status')>>
                 /\ pc' = "l_done"
            ELSE /\ pc' = "l_diagnose"
                 /\ log' = log \o <<Event("span"), Event("simulate"),
                                     Event("span"), VerifyRecord(result)>>
                 /\ UNCHANGED status
    /\ UNCHANGED <<args, attacks, ext, attacks_eff, attacks_eff2, ids, steps,
                   ablation, policy, af_iters, steps_executed, attacks_raw,
                   actuated>>
    /\ UNCHANGED queue_vars

(* lines 203-216: the diagnosis argument is built with Argument(...,       *)
(* role="diagnosis"); core.arguments.Argument declares no field `role', so *)
(* the constructor raises TypeError before args[diag_id] is assigned: no   *)
(* argument and no attack is added and the run ends with the exception,    *)
(* after the "span" record that the `with span' block of line 210 writes    *)
(* on its way out.                                                         *)
L_Diagnose ==
    /\ pc = "l_diagnose"
    /\ log' = log_event(log, "span", "")
    /\ pc' = "l_raised_TypeError"
    /\ UNCHANGED <<args, attacks, ext, attacks_eff, attacks_eff2, ids, steps,
                   ablation, policy, ok, status, af_iters, steps_executed,
                   attacks_raw, actuated, verified>>
    /\ UNCHANGED queue_vars

NextLanding == L_Reason \/ L_Act \/ L_Verify \/ L_Diagnose

SpecLanding == InitLanding /\ [][NextLanding]_vars

---------------------------------------------------------------------------
(* domains/plant/rules.py: generate_overtemp_AF, for the temperature 90.0   *)
(* that demos/scenario1_overtemp.py starts its plant with (above T_HIGH).   *)

OvertempArgument(p, name) ==
    [priority |-> p, deadline_ms |-> 200, action |-> [name |-> name]]

generate_overtemp_AF ==
    [args |-> (A_cool :> OvertempArgument(10, "open_valve")) @@
              (A_wait :> OvertempArgument(1, "noop")) @@
              (A_heat :> OvertempArgument(0, "set_heater_power")),
     attacks |-> {<<A_cool, A_wait>>, <<A_cool, A_heat>>}]

(* demos/scenario1_overtemp.py: main. *)

InitOvertemp ==
    /\ pc = "o_reason"
    /\ ablation \in Ablations
    /\ args = generate_overtemp_AF.args
    /\ attacks = generate_overtemp_AF.attacks
    /\ attacks_raw = generate_overtemp_AF.attacks
    /\ ext = {}
    /\ attacks_eff = {}
    /\ attacks_eff2 = {}
    /\ ids = <<>>
    /\ steps = <<>>
    /\ policy = "None"
    /\ ok = FALSE
    /\ status = ""
    /\ af_iters = 0
    /\ steps_executed = 0
    /\ actuated = <<>>
    /\ verified = 0
    /\ log = <<>>
    /\ environ = Setenv(Spell[ablation])
    /\ NoQueue

(* lines 34-69: the configuration and the sensing are logged; then         *)
(* no filter is applied in either branch (attacks_eff is the                *)
(* raw list); the accepted set is every id under no_af, the solver's result *)
(* otherwise; an empty accepted set ends the run with FAIL metrics.         *)
O_Reason ==
    /\ pc = "o_reason"
    /\ attacks_eff' = attacks_raw
    /\ ext' = IF is_no_af THEN DOMAIN args ELSE grounded_extension(args, attacks)
    /\ IF ext' = {}
       THEN /\ status' = "FAIL"
            /\ log' = log \o <<Event("config"), Event("sense"), Event("span"),
                                Event("arguments"), Event("grounded_extension"),
                                LogRecord("metrics", "FAIL"), Event("span")>>
            /\ pc' = "o_done"
            /\ UNCHANGED <<ids, steps>>
       ELSE /\ ids' \in EnumerationsOf(ext')
            /\ steps' = order_plan(args, ids')
            /\ log' = log \o <<Event("config"), Event("sense"), Event("span"),
                                Event("arguments"), Event("grounded_extension"),
                                Event("plan"), Event("span")>>
            /\ pc' = "o_solve_again"
            /\ UNCHANGED status
    /\ UNCHANGED <<args, attacks, attacks_eff2, ablation, policy, ok, af_iters,
                   steps_executed, attacks_raw, actuated, verified>>
    /\ UNCHANGED queue_vars

(* lines 72-86: the accepted set and the plan are computed a second time,   *)
(* by the solver in every ablation mode; these are the ones executed.       *)
O_SolveAgain ==
    /\ pc = "o_solve_again"
    /\ ext' = grounded_extension(args, attacks)
    /\ IF ext' = {}
       THEN /\ log' = log_event(log, "grounded_extension", "")
            /\ pc' = "o_done"
            /\ UNCHANGED <<ids, steps, af_iters>>
       ELSE /\ ids' \in EnumerationsOf(ext')
            /\ steps' = order_plan(args, ids')
            /\ log' = log \o <<Event("grounded_extension"), Event("plan")>>
            /\ af_iters' = 1
            /\ pc' = "o_act"
    /\ UNCHANGED <<args, attacks, attacks_eff, attacks_eff2, ablation, policy,
                   ok, status, steps_executed, attacks_raw, actuated, verified>>
    /\ UNCHANGED queue_vars

(* lines 88-98: the first step of the plan is actuated (the loop ends with  *)
(* `break' after one step).                                                *)
O_Act ==
    /\ pc = "o_act"
    /\ actuated' = Append(actuated, steps[1].arg_id)
    /\ steps_executed' = steps_executed + 1
    /\ log' = log \o <<Event("actuate"), Event("span")>>
    /\ pc' = "o_verify"
    /\ UNCHANGED <<args, attacks, ext, attacks_eff, attacks_eff2, ids, steps,
                   ablation, policy, ok, status, af_iters, attacks_raw, verified>>
    /\ UNCHANGED queue_vars

(* core/verify.py in_band on the plant of domains/plant/model.py: from 90.0 *)
(* the temperature reaches the band 70.0 +/- 0.5 within the timeout when    *)
(* the cooling valve was opened, and rises (k_heat > 0) when it was not.    *)
in_band == args[actuated[Len(actuated)]].action.name = "open_valve"

(* lines 100-114: verification; metrics with PASS or FAIL end the run; the  *)
(* branch `if not is_no_diag()' holds only `pass'.                         *)
O_Verify ==
    /\ pc = "o_verify"
    /\ ok' = in_band
    /\ verified' = verified + 1
    /\ status' = IF ok' THEN "PASS" ELSE "FAIL"
    /\ log' = log \o <<Event("span"), VerifyRecord(ok'),
                        LogRecord("metrics", status')>>
    /\ pc' = "o_done"
    /\ UNCHANGED <<args, attacks, ext, attacks_eff, attacks_eff2, ids, steps,
                   ablation, policy, af_iters, steps_executed, attacks_raw,
                   actuated>>
    /\ UNCHANGED queue_vars

NextOvertemp == O_Reason \/ O_SolveAgain \/ O_Act \/ O_Verify

SpecOvertemp == InitOvertemp /\ [][NextOvertemp]_vars

(* The single-shot orchestrators that read the ablation mode. *)
InitRuns == InitLanding \/ InitOvertemp

NextRuns == NextLanding \/ NextOvertemp

SpecRuns == InitRuns /\ [][NextRuns]_vars

---------------------------------------------------------------------------
(* domains/desktop/rules_scraper.py: generate_scraper_AF.                   *)
(* Ids by lexical rank: "A_run_scraper" < "A_run_tests" < "A_write_html"    *)
(* < "A_write_scraper" < "A_write_tests".                                   *)

A_run_scraper == 1
A_run_tests == 2
A_write_html == 3
A_write_scraper == 4
A_write_tests == 5

F_html == "fs:sample.html exists"
F_scraper == "fs:scraper.py exists"
F_test == "fs:test exists"
F_out == "out:output.json exists"
F_pass == "tests:pass"

StepArgument(pre, effects, p, d, name, kind, verify_name) ==
    [pre |-> pre, effects |-> effects, priority |-> p, deadline_ms |-> d,
     action |-> [name |-> name, kind |-> kind],
     verify |-> [name |-> verify_name]]

generate_scraper_AF ==
    [args |->
        (A_write_html :>
            StepArgument({}, {F_html}, 30, 50, "write_file", "html",
                         "file_exists")) @@
        (A_write_scraper :>
            StepArgument({}, {F_scraper, "sha:expected"}, 25, 60,
                         "write_file", "scraper", "file_hash_equal")) @@
        (A_write_tests :>
            StepArgument({}, {F_test}, 25, 70, "write_file", "tests",
                         "file_hash_equal")) @@
        (A_run_tests :>
            StepArgument({F_scraper, F_test}, {F_pass}, 15, 90,
                         "run_pytest", "", "proc_exitcode_ok")) @@
        (A_run_scraper :>
            StepArgument({F_pass}, {F_out, "sha:out_expected"}, 10, 100,
                         "run_py", "", "file_hash_equal")),
     attacks |->
        {<<A_run_tests, A_write_scraper>>, <<A_run_tests, A_write_html>>,
         <<A_run_tests, A_write_tests>>, <<A_run_scraper, A_run_tests>>,
         <<A_run_scraper, A_write_scraper>>, <<A_run_scraper, A_write_html>>}]

(* The queue loop of the multi-step scenarios is also run on every          *)
(* framework of up to NumIds write_file arguments whose preconditions and   *)
(* effects are drawn from two of the facts: the loop reads only `pre',      *)
(* `action' and `effects' of what the generator returned.                   *)
QueueFacts == {F_scraper, F_test}

(* Two more arguments exercise the `else' branches of the loop: one whose  *)
(* action name and one whose verify name the loop does not handle.          *)
QueueArguments ==
    {StepArgument(pre, eff, 0, 0, "write_file", "other", "file_exists") :
        pre \in SUBSET QueueFacts, eff \in SubsetsUpTo(QueueFacts, 1)}
    \cup {StepArgument({}, {}, 0, 0, "noop", "other", "file_exists"),
          StepArgument({}, {}, 0, 0, "write_file", "other", "noop")}

QueueFramework(a) == [args |-> a, attacks |-> {}]

(* demos/scenario3_scraper.py: main. *)

(* lines 61-62 *)
pre_ok_any(pre, fs) == pre = {} \/ \E p \in pre : p \in fs

pre_ok(pre, fs) == \A p \in pre : p \in fs

InferredFacts(a) ==
    IF a.action.name = "write_file"
    THEN IF a.action.kind = "html" THEN {F_html}
         ELSE IF a.action.kind = "scraper" THEN {F_scraper}
         ELSE IF a.action.kind = "tests" THEN {F_test}
         ELSE {}
    ELSE IF a.action.name = "run_pytest" THEN {F_pass}
    ELSE IF a.action.name = "run_py" THEN {F_out}
    ELSE {}

(* lines 64-80 *)
update_facts_without_effects(a, fs) == fs \cup InferredFacts(a)

update_facts_after_success(a, fs) == fs \cup InferredFacts(a) \cup a.effects

(* lines 83-91: the files that exist when the run starts; facts that are   *)
(* a precondition of no argument of the framework are left out (the loop    *)
(* reads the fact set in pre_ok only).                                      *)
FileFacts == {F_html, F_scraper, F_test, F_out}

MentionedFacts(a) == UNION {a[x].pre : x \in DOMAIN a}

InitMultiStep ==
    /\ pc = "ms_reason"
    /\ \E n \in 0..NumIds, choice \in BOOLEAN :
         \E a \in IF choice THEN {generate_scraper_AF.args}
                   ELSE [1..n -> QueueArguments] :
            LET af == IF choice THEN generate_scraper_AF ELSE QueueFramework(a)
            IN  /\ args = af.args
                /\ attacks = af.attacks
                /\ attacks_raw = af.attacks
    /\ ablation = "none"
    /\ ext = {}
    /\ attacks_eff = {}
    /\ attacks_eff2 = {}
    /\ ids = <<>>
    /\ steps = <<>>
    /\ policy = "None"
    /\ ok = FALSE
    /\ status = ""
    /\ af_iters = 0
    /\ steps_executed = 0
    /\ actuated = <<>>
    /\ verified = 0
    /\ log = <<>>
    /\ environ = Unset
    /\ NoQueue

(* lines 50-96: the sensing is logged; the solver runs on the generator's attacks; the plan is     *)
(* made over all keys of af.args, not over `ext'; the queue is the plan and *)
(* the budget four times its length.  af.args.keys() is in insertion order; *)
(* order_plan's result does not depend on it.                               *)
MS_Reason ==
    /\ pc = "ms_reason"
    /\ ext' = grounded_extension(args, attacks)
    /\ ids' = Ascending(DOMAIN args)
    /\ steps' = order_plan(args, ids')
    /\ facts' \in SUBSET (FileFacts \cap MentionedFacts(args))
    /\ queue' = steps'
    /\ max_iters' = Len(queue') * 4
    /\ iters' = 0
    /\ log' = log \o <<Event("sense"), Event("arguments"),
                        Event("grounded_extension"), Event("plan")>>
    /\ pc' = "ms_loop"
    /\ UNCHANGED <<args, attacks, attacks_eff, attacks_eff2, ablation, policy,
                   ok, status, af_iters, steps_executed, attacks_raw, actuated,
                   verified, emitted, check, environ>>

(* line 97: the condition of the while loop *)
LoopConditionOffByOne == queue # <<>> /\ iters <= max_iters

LoopCondition == queue # <<>> /\ iters < max_iters

(* lines 107-153: what running one step whose preconditions hold can do.   *)
(* `acted' says whether an "actuate" event is logged, `status' is the       *)
(* status of the check that decided the step ("raise" when ValueError       *)
(* leaves main), `message' is what emit_fail prints.                        *)
KnownActions == {"write_file", "run_pytest", "run_py"}

StepOutcome(acted, st, message) ==
    [acted |-> acted, status |-> st, message |-> message]

StepOutcomes_unknown_action_skipped(a) ==
    IF a.action.name = "write_file"
    THEN IF a.verify.name \in {"file_exists", "file_hash_equal"}
         THEN {StepOutcome(TRUE, "PASS", ""),
               StepOutcome(TRUE, "FAIL", "emit_fail: Verification failed at")}
         ELSE {StepOutcome(TRUE, "raise", "")}
    ELSE IF a.action.name = "run_pytest"
    THEN {StepOutcome(TRUE, "PASS", ""),
          StepOutcome(TRUE, "FAIL", "emit_fail: Tests failed")}
    ELSE IF a.action.name = "run_py"
    THEN {StepOutcome(TRUE, "PASS", ""),
          StepOutcome(TRUE, "FAIL", "emit_fail: run failed"),
          StepOutcome(TRUE, "FAIL", "emit_fail: Output verification failed")}
    ELSE {StepOutcome(FALSE, "PASS", "")}

StepOutcomes(a) ==
    IF a.action.name = "write_file"
    THEN IF a.verify.name \in {"file_exists", "file_hash_equal"}
         THEN {StepOutcome(TRUE, "PASS", ""),
               StepOutcome(TRUE, "FAIL", "emit_fail: Verification failed at")}
         ELSE {StepOutcome(TRUE, "raise", "")}
    ELSE IF a.action.name = "run_pytest"
    THEN {StepOutcome(TRUE, "PASS", ""),
          StepOutcome(TRUE, "FAIL", "emit_fail: Tests failed")}
    ELSE IF a.action.name = "run_py"
    THEN {StepOutcome(TRUE, "PASS", ""),
          StepOutcome(TRUE, "FAIL", "emit_fail: run failed"),
          StepOutcome(TRUE, "FAIL", "emit_fail: Output verification failed")}
    ELSE {StepOutcome(FALSE, "raise", "")}

(* lines 97-153: one iteration of the while loop.  A step whose             *)
(* preconditions are not all facts goes to the back of the queue; otherwise *)
(* its action is run and logged, its verification is logged, and on PASS    *)
(* the facts are updated, on FAIL the run is reported failed and returns,   *)
(* and an unhandled action or verify name raises ValueError.                *)
MS_Pop ==
    /\ pc = "ms_loop"
    /\ LoopCondition
    /\ iters' = iters + 1
    /\ LET step == Head(queue)
           a == args[step.arg_id]
       IN  IF ~pre_ok(a.pre, facts)
           THEN /\ queue' = Append(Tail(queue), step)
                /\ UNCHANGED <<facts, actuated, verified, ok, emitted, pc>>
           ELSE /\ queue' = Tail(queue)
                /\ \E o \in StepOutcomes(a) :
                     /\ actuated' = IF o.acted
                                    THEN Append(actuated, step.arg_id)
                                    ELSE actuated
                     /\ IF o.status = "PASS"
                        THEN /\ facts' = update_facts_after_success(a, facts)
                             /\ verified' = verified + 1
                             /\ ok' = TRUE
                             /\ UNCHANGED <<emitted, pc>>
                        ELSE IF o.status = "FAIL"
                        THEN /\ emitted' = o.message
                             /\ verified' = verified + 1
                             /\ ok' = FALSE
                             /\ pc' = "ms_done"
                             /\ UNCHANGED facts
                        ELSE /\ pc' = "ms_raised_ValueError"
                             /\ UNCHANGED <<facts, verified, ok, emitted>>
    /\ log' = log \o (IF actuated' # actuated THEN <<Event("actuate")>>
                       ELSE <<>>)
                   \o (IF verified' # verified THEN <<VerifyRecord(ok')>>
                       ELSE <<>>)
    /\ UNCHANGED <<args, attacks, ext, attacks_eff, attacks_eff2, ids, steps,
                   ablation, policy, status, af_iters, steps_executed,
                   attacks_raw, max_iters, check, environ>>

(* lines 155-160: after the loop. *)
MS_End_reports_ok ==
    /\ pc = "ms_loop"
    /\ ~LoopCondition
    /\ emitted' = "emit_ok: complete"
    /\ pc' = "ms_done"
    /\ UNCHANGED <<args, attacks, ext, attacks_eff, attacks_eff2, ids, steps,
                   ablation, policy, ok, status, af_iters, steps_executed,
                   attacks_raw, actuated, verified, queue, facts, iters,
                   max_iters, check, log, environ>>

MS_End ==
    /\ pc = "ms_loop"
    /\ ~LoopCondition
    /\ emitted' = IF queue # <<>>
                  THEN "emit_fail: unmet preconditions remain"
                  ELSE "emit_ok: complete"
    /\ pc' = "ms_done"
    /\ UNCHANGED <<args, attacks, ext, attacks_eff, attacks_eff2, ids, steps,
                   ablation, policy, ok, status, af_iters, steps_executed,
                   attacks_raw, actuated, verified, queue, facts, iters,
                   max_iters, check, log, environ>>

NextMultiStep == MS_Reason \/ MS_Pop \/ MS_End

SpecMultiStep == InitMultiStep /\ [][NextMultiStep]_vars

(* The same loop on longer plans: up to MaxChain write_file steps of equal  *)
(* priority and deadline, so that the queue starts in id order.  Step i     *)
(* has the effect StepFact(i); between neighbours i and i + 1 there is no   *)
(* dependency, or step i + 1 requires the fact of step i ("forward"), or    *)
(* step i requires the fact of step i + 1 ("backward").  Every such plan    *)
(* can be executed in some order.                                           *)
MaxChain == 8

StepFact(i) == "step:" \o ToString(i) \o " done"

Links == {"none", "forward", "backward"}

ChainArguments(n, link) ==
    [i \in 1..n |->
        StepArgument(
            (IF i > 1 /\ link[i - 1] = "forward" THEN {StepFact(i - 1)} ELSE {})
            \cup (IF i < n /\ link[i] = "backward" THEN {StepFact(i + 1)}
                  ELSE {}),
            {StepFact(i)}, 0, 0, "write_file", "other", "file_exists")]

InitChain ==
    /\ pc = "ms_reason"
    /\ \E n \in 1..MaxChain :
         \E link \in [1..(n - 1) -> Links] :
            LET af == QueueFramework(ChainArguments(n, link))
            IN  /\ args = af.args
                /\ attacks = af.attacks
                /\ attacks_raw = af.attacks
    /\ ext = {}
    /\ attacks_eff = {}
    /\ attacks_eff2 = {}
    /\ ids = <<>>
    /\ steps = <<>>
    /\ NoRun

SpecChain == InitChain /\ [][NextMultiStep]_vars

---------------------------------------------------------------------------
(* domains/desktop/rules_agentos.py and demos/scenario3_agentos.py *)

A_run_ide_hello == 1
A_run_web_search == 2
A_verify_ide_hello == 3
A_verify_web_search == 4

F_hello == "fs:hello_stdout exists"
F_search == "fs:search_png exists"

Goals == {"ide_hello", "web_search"}

GoalArgument(pre, effects, p, d, action, verify) ==
    [pre |-> pre, effects |-> effects, priority |-> p, deadline_ms |-> d,
     action |-> action, verify |-> verify]

RunGoal(goal) == [name |-> "run_goal", params |-> [goal |-> goal]]
Noop == [name |-> "noop", params |-> << >>]
EchoOk == [name |-> "proc_exitcode_ok", params |-> [cmd |-> <<"echo", "ok">>]]
FileExists(path, timeout_s) ==
    [name |-> "file_exists", params |-> [path |-> path, timeout_s |-> timeout_s]]

generate_agentos_AF(goals) ==
    LET hello == (A_run_ide_hello :>
                     GoalArgument({}, {F_hello}, 20, 50,
                                  RunGoal("ide hello"), EchoOk)) @@
                 (A_verify_ide_hello :>
                     GoalArgument({F_hello}, {}, 15, 60,
                                  Noop, FileExists("hello_stdout", 10)))
        search == (A_run_web_search :>
                     GoalArgument({}, {F_search}, 20, 70,
                                  RunGoal("search docs"), EchoOk)) @@
                  (A_verify_web_search :>
                     GoalArgument({F_search}, {}, 15, 80,
                                  Noop, FileExists("search_png", 20)))
    IN  [args |-> (IF "ide_hello" \in goals THEN hello ELSE << >>) @@
                  (IF "web_search" \in goals THEN search ELSE << >>),
         attacks |->
            (IF "ide_hello" \in goals
             THEN {<<A_verify_ide_hello, A_run_ide_hello>>} ELSE {}) \cup
            (IF "web_search" \in goals
             THEN {<<A_verify_web_search, A_run_web_search>>} ELSE {}),
         keys |->
            (IF "ide_hello" \in goals
             THEN <<A_run_ide_hello, A_verify_ide_hello>> ELSE <<>>) \o
            (IF "web_search" \in goals
             THEN <<A_run_web_search, A_verify_web_search>> ELSE <<>>)]

(* The loop of the scenario is also run on frameworks that give any of the *)
(* four ids one of five arguments, which between them reach every branch of *)
(* the loop's dispatch.                                                     *)
GoalTemplates ==
    {GoalArgument({}, {}, 0, 0, RunGoal("ide hello"), EchoOk),
     GoalArgument({}, {}, 0, 0, Noop, FileExists("hello_stdout", 10)),
     GoalArgument({F_hello}, {}, 0, 0, Noop, FileExists("hello_stdout", 10)),
     GoalArgument({}, {}, 0, 0, Noop, [name |-> "noop", params |-> << >>]),
     GoalArgument({}, {}, 0, 0, [name |-> "click", params |-> << >>],
                  [name |-> "noop", params |-> << >>])}

GoalFramework(a) ==
    [args |-> a, attacks |-> {}, keys |-> Ascending(DOMAIN a)]

(* lines 16-23: main is called with the goals; the framework is generated. *)
InitAgentOS ==
    /\ pc = "ag_reason"
    /\ \E goals \in SUBSET Goals, choice \in BOOLEAN,
          K \in SUBSET (A_run_ide_hello..A_verify_web_search) :
         \E a \in IF choice THEN {generate_agentos_AF(goals).args}
                   ELSE [K -> GoalTemplates] :
            LET af == IF choice THEN generate_agentos_AF(goals)
                      ELSE GoalFramework(a)
            IN  /\ args = af.args
                /\ attacks = af.attacks
                /\ attacks_raw = af.attacks
                /\ ids = af.keys
    /\ ablation = "none"
    /\ ext = {}
    /\ attacks_eff = {}
    /\ attacks_eff2 = {}
    /\ steps = <<>>
    /\ policy = "None"
    /\ ok = FALSE
    /\ status = ""
    /\ af_iters = 0
    /\ steps_executed = 0
    /\ actuated = <<>>
    /\ verified = 0
    /\ log = <<>>
    /\ environ = Unset
    /\ NoQueue

(* lines 21-44: the sensing and the arguments are logged; solve, plan over  *)
(* all keys, read the facts from the files present, fill the queue.         *)
AG_Reason ==
    /\ pc = "ag_reason"
    /\ ext' = grounded_extension(args, attacks)
    /\ steps' = order_plan(args, ids)
    /\ facts' \in SUBSET {F_hello, F_search}
    /\ queue' = steps'
    /\ max_iters' = Len(queue') * 4
    /\ iters' = 0
    /\ log' = log \o <<Event("sense"), Event("arguments"),
                        Event("grounded_extension"), Event("plan")>>
    /\ pc' = "ag_loop"
    /\ UNCHANGED <<args, attacks, attacks_eff, attacks_eff2, ids, ablation,
                   policy, ok, status, af_iters, steps_executed, attacks_raw,
                   actuated, verified, emitted, check,
                   environ>>

(* lines 38-40 *)
update_facts(x, fs) ==
    fs \cup (IF x = A_run_ide_hello THEN {F_hello} ELSE {})
       \cup (IF x = A_run_web_search THEN {F_search} ELSE {})

(* what decided a step: the primitive and the parameters it was run with *)
DecidedBy(x, name, params, st) ==
    [name |-> name, params |-> params, arg |-> x, status |-> st]

(* lines 45-71: one iteration of the while loop.  A run_goal step is        *)
(* decided by the return code of the goal's process: a non-zero code is     *)
(* logged as a failed verification and ends the run, a zero code updates    *)
(* the facts, and a.verify is not run.  A step whose verify is file_exists  *)
(* runs that check with the argument's path and timeout.                    *)
AG_Pop ==
    /\ pc = "ag_loop"
    /\ queue # <<>> /\ iters < max_iters
    /\ iters' = iters + 1
    /\ LET step == Head(queue)
           x == step.arg_id
           a == args[x]
       IN  IF ~pre_ok(a.pre, facts)
           THEN /\ queue' = Append(Tail(queue), step)
                /\ UNCHANGED <<facts, actuated, verified, ok, emitted, pc,
                               check>>
           ELSE /\ queue' = Tail(queue)
                /\ IF a.action.name = "run_goal"
                   THEN /\ actuated' = Append(actuated, x)
                        /\ \E returncode \in {0, 1} :
                             /\ check' = DecidedBy(x, "run_goal returncode",
                                            a.action.params,
                                            IF returncode = 0 THEN "PASS"
                                            ELSE "FAIL")
                             /\ IF returncode # 0
                                THEN /\ verified' = verified + 1
                                     /\ ok' = FALSE
                                     /\ emitted' = "AgentOS goal failed"
                                     /\ pc' = "ag_done"
                                     /\ UNCHANGED facts
                                ELSE /\ facts' = update_facts(x, facts)
                                     /\ ok' = TRUE
                                     /\ UNCHANGED <<verified, emitted, pc>>
                   ELSE IF a.verify.name = "file_exists"
                   THEN /\ verified' = verified + 1
                        /\ \E st \in {"PASS", "FAIL"} :
                             /\ check' = DecidedBy(x, "file_exists",
                                                   a.verify.params, st)
                             /\ ok' = (st = "PASS")
                             /\ IF st # "PASS"
                                THEN /\ emitted' = "Artifact not found"
                                     /\ pc' = "ag_done"
                                ELSE UNCHANGED <<emitted, pc>>
                        /\ UNCHANGED <<facts, actuated>>
                   ELSE IF a.action.name = "noop"
                   THEN /\ actuated' = Append(actuated, x)
                        /\ UNCHANGED <<facts, verified, ok, emitted, pc, check>>
                   ELSE /\ pc' = "ag_raised_ValueError"
                        /\ UNCHANGED <<facts, actuated, verified, ok, emitted,
                                       check>>
    /\ log' = log \o (IF actuated' # actuated THEN <<Event("actuate")>>
                       ELSE <<>>)
                   \o (IF verified' # verified THEN <<VerifyRecord(ok')>>
                       ELSE <<>>)
    /\ UNCHANGED <<args, attacks, ext, attacks_eff, attacks_eff2, ids, steps,
                   ablation, policy, status, af_iters, steps_executed,
                   attacks_raw, max_iters, environ>>

(* lines 73-75 *)
AG_End ==
    /\ pc = "ag_loop"
    /\ ~(queue # <<>> /\ iters < max_iters)
    /\ emitted' = IF queue # <<>>
                  THEN "Could not schedule all steps"
                  ELSE "Desktop (AgentOS) tasks complete"
    /\ pc' = "ag_done"
    /\ UNCHANGED <<args, attacks, ext, attacks_eff, attacks_eff2, ids, steps,
                   ablation, policy, ok, status, af_iters, steps_executed,
                   attacks_raw, actuated, verified, queue, facts, iters,
                   max_iters, check, log, environ>>

NextAgentOS == AG_Reason \/ AG_Pop \/ AG_End

SpecAgentOS == InitAgentOS /\ [][NextAgentOS]_vars

---------------------------------------------------------------------------
(* core/arguments.py: ArgFramework, built from any mapping and any set of   *)
(* pairs, and the two ways the scenarios reason on it.                      *)

MaxPairs == 2

Dangling(a, atts) ==
    {e \in atts : e[1] \notin DOMAIN a \/ e[2] \notin DOMAIN a}

(* ArgFramework is a dataclass with the fields args and attacks: it stores  *)
(* what it is given.                                                        *)
InitFramework ==
    /\ pc = "fw_built"
    /\ \E K \in SUBSET Ids :
         /\ attacks \in SubsetsUpTo(Ids \X Ids, MaxPairs)
         /\ args \in [K -> {Argument(p, 0) : p \in 0..MaxPrio}]
    /\ ablation \in Ablations
    /\ ext = {}
    /\ attacks_eff = {}
    /\ attacks_eff2 = {}
    /\ ids = <<>>
    /\ steps = <<>>
    /\ policy = "None"
    /\ ok = FALSE
    /\ status = ""
    /\ af_iters = 0
    /\ steps_executed = 0
    /\ attacks_raw = attacks
    /\ actuated = <<>>
    /\ verified = 0
    /\ log = <<>>
    /\ environ = Setenv(Spell[ablation])
    /\ NoQueue

(* demos/scenario2_landing.py lines 140-150 on that framework:              *)
(* filter_attacks_by_priority reads args[attacker] and args[target] of      *)
(* every pair, which raises KeyError for an id that is not a key.           *)
FW_FilterAndSolve ==
    /\ pc = "fw_built"
    /\ IF ~is_no_priority /\ Dangling(args, attacks_raw) # {}
       THEN /\ pc' = "fw_raised_KeyError"
            /\ UNCHANGED <<ext, attacks_eff, af_iters>>
       ELSE /\ attacks_eff' = IF is_no_priority THEN attacks_raw
                              ELSE filter_attacks_by_priority(args, attacks_raw)
            /\ ext' = IF is_no_af THEN DOMAIN args
                      ELSE grounded_extension(args, attacks_eff')
            /\ af_iters' = af_iters + 1
            /\ pc' = "fw_solved"
    /\ UNCHANGED <<args, attacks, attacks_eff2, ids, steps, ablation, policy,
                   ok, status, steps_executed, attacks_raw, actuated, verified, log>>
    /\ UNCHANGED queue_vars

(* demos/scenario3_scraper.py line 54 on that framework: the solver is      *)
(* called on the framework as built.                                        *)
FW_Solve ==
    /\ pc = "fw_built"
    /\ ext' = grounded_extension(args, attacks)
    /\ af_iters' = af_iters + 1
    /\ pc' = "fw_solved"
    /\ UNCHANGED <<args, attacks, attacks_eff, attacks_eff2, ids, steps,
                   ablation, policy, ok, status, steps_executed, attacks_raw,
                   actuated, verified, log>>
    /\ UNCHANGED queue_vars

NextFramework == FW_FilterAndSolve \/ FW_Solve

SpecFramework == InitFramework /\ [][NextFramework]_vars

---------------------------------------------------------------------------
(* core/verify.py: the polling checks.                                      *)
(*                                                                          *)
(* The loop variable t, dt and timeout_s are Python floats (IEEE 754        *)
(* binary64) and `t += dt' rounds to nearest, ties to even.  A float below  *)
(* 8 that is a multiple of 2^-56 is held exactly as the integer             *)
(* hi * 2^28 + lo in units of 2^-56; every value the loops compute for the  *)
(* steps and timeouts below is of that kind.                                *)

MaxTimeoutHalves == 3
MaxMetric == 16

Limb == 2^28

Dbl(hi, lo) == [hi |-> hi, lo |-> lo]

(* 0.0, the float literal 0.1 (0x1.999999999999ap-4) and 0.5 *)
Dbl_zero == Dbl(0, 0)
Dbl_tenth == Dbl(26843545, 161061274)
Dbl_half == Dbl(2^27, 0)

(* timeout_s: j halves of a second, each exactly a float *)
DblHalves(j) == Dbl(j * 2^27, 0)

Carry(hi, lo) == Dbl(hi + lo \div Limb, lo % Limb)

(* spacing of the floats in the binade of a value, in units of 2^-56 *)
UlpOf(hi) ==
    IF hi >= 2^30 THEN 64
    ELSE IF hi >= 2^29 THEN 32
    ELSE IF hi >= 2^28 THEN 16
    ELSE IF hi >= 2^27 THEN 8
    ELSE IF hi >= 2^26 THEN 4
    ELSE IF hi >= 2^25 THEN 2
    ELSE 1

RoundToFloat(x) ==
    LET U == UlpOf(x.hi)
        r == x.lo % U
        down == x.lo - r
    IN  IF 2 * r < U \/ (2 * r = U /\ (down \div U) % 2 = 0)
        THEN Dbl(x.hi, down)
        ELSE Carry(x.hi, down + U)

ExactSum(x, y) == Carry(x.hi + y.hi, x.lo + y.lo)

(* x + y of two floats *)
FloatAdd(x, y) == RoundToFloat(ExactSum(x, y))

RECURSIVE ExactTimes(_, _)
ExactTimes(x, n) == IF n = 0 THEN Dbl_zero ELSE ExactSum(ExactTimes(x, n - 1), x)

(* x * n of a float and a small integer *)
FloatTimes(x, n) == RoundToFloat(ExactTimes(x, n))

FloatLeq(x, y) == x.hi < y.hi \/ (x.hi = y.hi /\ x.lo <= y.lo)

Abs(v) == IF v < 0 THEN -v ELSE v

MetricChecks == {"in_band", "reach_threshold"}
FileChecks == {"file_exists", "file_hash_equal"}

(* The call being made.  get_metric reads a plant value that step_fn        *)
(* changes by `rate' per call; the target is 0.  The file checks are called *)
(* with or without a step_fn.                                               *)
PollingCall(name, tol, direction, j, dt, metric, rate, has_step_fn) ==
    [name |-> name, target |-> 0, tol |-> tol, direction |-> direction,
     timeout_s |-> DblHalves(j), dt |-> dt, has_step_fn |-> has_step_fn,
     metric |-> metric, rate |-> rate,
     t |-> Dbl_zero, history |-> <<>>, samples |-> 0, step_calls |-> 0,
     status |-> "", elapsed_s |-> Dbl_zero]

(* A verifier is called on its own: no framework, no run. *)
NoFramework ==
    /\ args = << >>
    /\ attacks = {}
    /\ ext = {}
    /\ attacks_eff = {}
    /\ attacks_eff2 = {}
    /\ ids = <<>>
    /\ steps = <<>>
    /\ ablation = "none"
    /\ policy = "None"
    /\ ok = FALSE
    /\ status = ""
    /\ af_iters = 0
    /\ steps_executed = 0
    /\ attacks_raw = {}
    /\ actuated = <<>>
    /\ verified = 0
    /\ log = <<>>
    /\ environ = Unset
    /\ queue = <<>>
    /\ facts = {}
    /\ iters = 0
    /\ max_iters = 0
    /\ emitted = ""

InitPolling ==
    /\ pc = "v_poll"
    /\ \E j \in 1..MaxTimeoutHalves, dt \in {Dbl_tenth, Dbl_half},
          metric \in 0..MaxMetric, rate \in {-1, 0} :
          \/ \E tol \in {0, 1} :
                check = PollingCall("in_band", tol, "", j, dt, metric, rate, TRUE)
          \/ \E direction \in {"up", "down"} :
                check = PollingCall("reach_threshold", 0, direction, j, dt,
                                    metric, rate, TRUE)
          \/ \E name \in FileChecks, has_step_fn \in BOOLEAN :
                /\ metric = 0 /\ rate = 0
                /\ check = PollingCall(name, 0, "", j, dt, 0, 0, has_step_fn)
    /\ NoFramework

(* the predicate of a metric check on the value sampled *)
Satisfies(c, val) ==
    IF c.name = "in_band" THEN Abs(val - c.target) <= c.tol
    ELSE \/ c.direction = "down" /\ val <= c.target
         \/ c.direction = "up" /\ val >= c.target

(* `while t <= timeout_s' *)
WhileCondition == FloatLeq(check.t, check.timeout_s)

(* One iteration of the while loop: sample, return PASS if the sample      *)
(* satisfies the check, otherwise call step_fn(dt) and add dt to t.  A file *)
(* check samples os.path.exists (and the digest), which the call does not   *)
(* control.                                                                 *)
V_Sample ==
    /\ pc = "v_poll"
    /\ WhileCondition
    /\ \E found \in BOOLEAN :
         LET val == check.metric
             hist == IF check.name \in MetricChecks
                     THEN Append(check.history, val)
                     ELSE check.history
             hit == IF check.name \in MetricChecks
                    THEN Satisfies(check, val)
                    ELSE found
         IN  /\ check.name \in MetricChecks => found
             /\ IF hit
                THEN /\ check' = [check EXCEPT !.history = hist,
                                               !.samples = @ + 1,
                                               !.status = "PASS",
                                               !.elapsed_s = check.t]
                     /\ pc' = "v_done"
                ELSE /\ check' = [check EXCEPT
                            !.history = hist,
                            !.samples = @ + 1,
                            !.step_calls = IF check.has_step_fn THEN @ + 1 ELSE @,
                            !.metric = IF check.has_step_fn
                                       THEN @ + check.rate ELSE @,
                            !.t = FloatAdd(@, check.dt)]
                     /\ pc' = pc
    /\ UNCHANGED all_but_check

(* the return after the loop *)
V_Expire ==
    /\ pc = "v_poll"
    /\ ~WhileCondition
    /\ check' = [check EXCEPT !.status = "FAIL", !.elapsed_s = check.t]
    /\ pc' = "v_done"
    /\ UNCHANGED all_but_check

NextPolling == V_Sample \/ V_Expire

SpecPolling == InitPolling /\ [][NextPolling]_vars

---------------------------------------------------------------------------
(* core/verify.py: the process checks.                                      *)
(*                                                                          *)
(* subprocess.run either completes with a return code and the captured      *)
(* standard output, raises TimeoutExpired, or raises OSError when the       *)
(* command cannot be started (FileNotFoundError for a missing executable or *)
(* working directory).  Standard output and the text searched for are       *)
(* strings over a two-letter alphabet; a pattern is a literal or is not a   *)
(* valid regular expression.                                                *)

MaxOut == 2

Letters == {"o", "k"}

Strings == UNION {[1..n -> Letters] : n \in 0..MaxOut}

ProcessChecks == {"proc_exitcode_ok", "stdout_contains", "stdout_regex"}

Completed(rc, out) == [kind |-> "completed", returncode |-> rc, stdout |-> out]
TimeoutExpired == [kind |-> "TimeoutExpired"]
StartFailure == [kind |-> "OSError"]

(* `needle in hay' *)
Contains(needle, hay) ==
    \E i \in 0..(Len(hay) - Len(needle)) :
        SubSeq(hay, i + 1, i + Len(needle)) = needle

Returned(name, st, err) ==
    [raised |-> FALSE, check |-> name, status |-> st, error |-> err]

Raised(exception) == [raised |-> TRUE, exception |-> exception]

(* lines 30-37: only TimeoutExpired is caught *)
proc_exitcode_ok(run) ==
    IF run.kind = "completed"
    THEN Returned("proc_exitcode_ok",
                  IF run.returncode = 0 THEN "PASS" ELSE "FAIL", "")
    ELSE IF run.kind = "TimeoutExpired"
    THEN Returned("proc_exitcode_ok", "FAIL", "timeout")
    ELSE Raised(run.kind)

(* str(e) of the exception caught by `except Exception as e' *)
ExceptionText(kind) ==
    IF kind = "TimeoutExpired" THEN "Command timed out after timeout_s seconds"
    ELSE IF kind = "OSError" THEN "[Errno 2] No such file or directory"
    ELSE "re.error"

(* lines 80-92 *)
stdout_contains(run, must_include) ==
    IF run.kind = "completed"
    THEN Returned("stdout_contains",
                  IF run.returncode = 0 /\ Contains(must_include, run.stdout)
                  THEN "PASS" ELSE "FAIL", "")
    ELSE Returned("stdout_contains", "FAIL", ExceptionText(run.kind))

(* lines 94-106: re.search raises re.error on an invalid pattern, after the *)
(* return code was tested (`and' does not evaluate it for a non-zero code). *)
stdout_regex(run, pattern) ==
    IF run.kind = "completed"
    THEN IF run.returncode # 0
         THEN Returned("stdout_regex", "FAIL", "")
         ELSE IF ~pattern.valid
         THEN Returned("stdout_regex", "FAIL", ExceptionText("re.error"))
         ELSE Returned("stdout_regex",
                       IF Contains(pattern.text, run.stdout)
                       THEN "PASS" ELSE "FAIL", "")
    ELSE Returned("stdout_regex", "FAIL", ExceptionText(run.kind))

Patterns ==
    {[valid |-> TRUE, text |-> x] : x \in Strings}
    \cup {[valid |-> FALSE, text |-> <<>>]}

ProcessRuns ==
    {Completed(rc, out) : rc \in {0, 1}, out \in Strings}
    \cup {TimeoutExpired, StartFailure}

InitProcess ==
    /\ pc = "p_call"
    /\ \E run \in ProcessRuns :
          \/ check = [name |-> "proc_exitcode_ok", run |-> run]
          \/ \E must_include \in Strings :
                check = [name |-> "stdout_contains", run |-> run,
                         must_include |-> must_include]
          \/ \E pattern \in Patterns :
                check = [name |-> "stdout_regex", run |-> run,
                         pattern |-> pattern]
    /\ NoFramework

(* the call of the check: it returns a result or an exception leaves it *)
P_Call ==
    /\ pc = "p_call"
    /\ LET res == IF check.name = "proc_exitcode_ok"
                  THEN proc_exitcode_ok(check.run)
                  ELSE IF check.name = "stdout_contains"
                  THEN stdout_contains(check.run, check.must_include)
                  ELSE stdout_regex(check.run, check.pattern)
       IN  /\ check' = [name |-> check.name, run |-> check.run, res |-> res,
                        wanted |-> IF check.name = "stdout_contains"
                                   THEN check.must_include
                                   ELSE IF check.name = "stdout_regex"
                                   THEN check.pattern.text
                                   ELSE <<>>]
           /\ pc' = IF res.raised THEN "p_raised" ELSE "p_returned"
    /\ UNCHANGED all_but_check

NextProcess == P_Call

SpecProcess == InitProcess /\ [][NextProcess]_vars

---------------------------------------------------------------------------
(* core/verify.py: json_field_equals.                                       *)
(*                                                                          *)
(* A parsed document is None, a number, a dict or a list.  The pointer is   *)
(* held as the list of its non-empty tokens (line 119).                     *)

MaxDepth == 2
MaxPointerLen == 2

JsonNone == [t |-> "None"]
JsonNum(n) == [t |-> "num", v |-> n]
JsonDict(m) == [t |-> "dict", m |-> m]
JsonList(l) == [t |-> "list", l |-> l]

Scalars == {JsonNone, JsonNum(1), JsonNum(2)}

Keys == {"a"}
Tokens == {"a", "0", "1", "-1"}

(* documents nested at most d deep, with at most one key or element in each *)
(* container                                                                *)
RECURSIVE JsonValues(_)
JsonValues(d) ==
    IF d = 0 THEN Scalars
    ELSE LET inner == JsonValues(d - 1)
         IN  inner
             \cup {JsonDict(<< >>), JsonList(<<>>)}
             \cup {JsonDict(k :> x) : k \in Keys, x \in inner}
             \cup {JsonList(<<x>>) : x \in inner}

Pointers == UNION {[1..n -> Tokens] : n \in 0..MaxPointerLen}

(* int(tok): ValueError for a token that is not an integer literal *)
IsIntLiteral(tok) == tok \in {"0", "1", "-1"}
IntOf(tok) == IF tok = "0" THEN 0 ELSE IF tok = "1" THEN 1 ELSE -1

Resolved(x) == [raised |-> FALSE, cur |-> x]
LookupError == [raised |-> TRUE]

(* lines 119-124: one pass of the for loop over the tokens.  cur[idx]       *)
(* accepts -len <= idx < len; dict.get gives None for an absent key; .get   *)
(* on None or a number raises AttributeError.                               *)
RECURSIVE Walk(_, _)
Walk(cur, toks) ==
    IF toks = <<>> THEN Resolved(cur)
    ELSE LET tok == Head(toks)
         IN  IF cur.t = "list"
             THEN IF ~IsIntLiteral(tok) THEN LookupError
                  ELSE LET idx == IntOf(tok)
                           n == Len(cur.l)
                       IN  IF idx >= n \/ idx < -n THEN LookupError
                           ELSE Walk(cur.l[IF idx >= 0 THEN idx + 1
                                           ELSE n + idx + 1],
                                     Tail(toks))
             ELSE IF cur.t = "dict"
             THEN Walk(IF tok \in DOMAIN cur.m THEN cur.m[tok] ELSE JsonNone,
                       Tail(toks))
             ELSE LookupError

(* lines 108-128 *)
json_field_equals(exists, data, pointer, expected) ==
    IF ~exists
    THEN [status |-> "FAIL", error |-> "file_missing"]
    ELSE LET w == Walk(data, pointer)
         IN  IF w.raised
             THEN [status |-> "FAIL", error |-> "exception"]
             ELSE [status |-> IF w.cur = expected THEN "PASS" ELSE "FAIL",
                   error |-> ""]

InitJson ==
    /\ pc = "j_call"
    /\ \E exists \in BOOLEAN, data \in JsonValues(MaxDepth),
          pointer \in Pointers, expected \in Scalars :
          check = [name |-> "json_field_equals", exists |-> exists,
                   data |-> data, pointer |-> pointer, expected |-> expected]
    /\ NoFramework

J_Call ==
    /\ pc = "j_call"
    /\ check' = [name |-> check.name, exists |-> check.exists,
                 data |-> check.data, pointer |-> check.pointer,
                 expected |-> check.expected,
                 res |-> json_field_equals(check.exists, check.data,
                                           check.pointer, check.expected)]
    /\ pc' = "j_returned"
    /\ UNCHANGED all_but_check

NextJson == J_Call

SpecJson == InitJson /\ [][NextJson]_vars

---------------------------------------------------------------------------
(* The whole model: each driver starts from its own initial states. *)

Init ==
    \/ InitAF \/ InitPlan \/ InitRuns \/ InitMultiStep \/ InitFramework
    \/ InitPolling \/ InitProcess \/ InitJson \/ InitAgentOS \/ InitChain
    \/ InitAblation

Next ==
    \/ NextAF \/ NextPlan \/ NextRuns \/ NextMultiStep \/ NextFramework
    \/ NextPolling \/ NextProcess \/ NextJson \/ NextAgentOS
    \/ NextAblation

Spec == Init /\ [][Next]_vars

---------------------------------------------------------------------------
(* Reference semantics used to state the solver claims: the least-fixpoint *)
(* labelling (IN when every attacker is OUT, OUT when some attacker is IN).*)

RECURSIVE LabelFix(_, _, _, _)
LabelFix(A, R, inS, outS) ==
    LET newIn  == {x \in A : Attackers(R, x) \subseteq outS}
        newOut == {x \in A : Attackers(R, x) \cap inS # {}}
    IN  IF newIn \subseteq inS /\ newOut \subseteq outS
        THEN inS
        ELSE LabelFix(A, R, inS \cup newIn, outS \cup newOut)

LabelledIn(A, R) == LabelFix(A, R, {}, {})

Defended(A, R, E, x) ==
    \A y \in Attackers(R, x) : Attackers(R, y) \cap E # {}

OddLengths(n) == {k \in 1..n : k % 2 = 1}

OnOddCycle(A, R, x) ==
    \E n \in OddLengths(Cardinality(A)) :
        \E s \in [1..n -> A] :
            /\ s[1] = x
            /\ \A i, j \in 1..n : s[i] = s[j] => i = j
            /\ \A i \in 1..(n - 1) : <<s[i], s[i + 1]>> \in R
            /\ <<s[n], s[1]>> \in R

DemoArgs == {A_cool, A_wait, A_heat}

DemoAttacks == {<<A_cool, A_wait>>, <<A_cool, A_heat>>}

---------------------------------------------------------------------------
(* Claims about the solver and the attack filter (checked under SpecAF) *)

\* C1: grounded_extension returns exactly the ids labelled IN by the
\* least-fixpoint labelling; in particular an argument all of whose
\* attackers are attacked by an accepted argument is itself accepted.
C1_GroundedIsLeastFixpoint ==
    pc = "af_solved" =>
        /\ ext = LabelledIn(DOMAIN args, attacks)
        /\ \A x \in DOMAIN args :
               Defended(DOMAIN args, attacks, ext, x) => x \in ext

\* C2: the returned set is conflict-free: no attack pair (a, b) of the
\* framework has both a and b in the returned set.
C2_ConflictFree ==
    pc = "af_solved" =>
        \A e \in attacks : ~(e[1] \in ext /\ e[2] \in ext)

C2_Witness ==
    /\ pc = "af_solved"
    /\ Cardinality(ext) >= 2
    /\ \E e \in attacks : e[1] \in ext /\ e[2] \notin ext

\* C3: no attacker of an accepted argument is accepted, and no argument on
\* an odd-length attack cycle (a self-attack included) is accepted.
C3_AttackersRejectedOddCyclesOut ==
    pc = "af_solved" =>
        /\ \A x \in ext : Attackers(attacks, x) \cap ext = {}
        /\ \A x \in DOMAIN args :
               OnOddCycle(DOMAIN args, attacks, x) => x \notin ext

C3_Witness ==
    /\ pc = "af_solved"
    /\ \E x \in DOMAIN args :
           /\ <<x, x>> \notin attacks
           /\ OnOddCycle(DOMAIN args, attacks, x)
           /\ x \notin ext

\* C4: with an empty attack set the solver returns every argument id (and
\* the empty set for a framework without arguments).
C4_AttackFreeAcceptsAll ==
    (pc = "af_solved" /\ attacks = {}) =>
        /\ ext = DOMAIN args
        /\ (DOMAIN args = {} => ext = {})

C4_Witness ==
    /\ pc = "af_solved"
    /\ attacks = {}
    /\ Cardinality(DOMAIN args) >= 2
    /\ ext = DOMAIN args

\* C5: every argument without incoming attack is accepted, every argument
\* attacked by such an argument is not accepted, and the demo framework
\* {A_cool, A_wait, A_heat} with A_cool attacking the other two yields
\* exactly {A_cool}.
C5_UnattackedAcceptedTargetsRejected ==
    pc = "af_solved" =>
        /\ \A x \in DOMAIN args : Attackers(attacks, x) = {} => x \in ext
        /\ \A e \in attacks : Attackers(attacks, e[1]) = {} => e[2] \notin ext
        /\ (DOMAIN args = DemoArgs /\ attacks = DemoAttacks) => ext = {A_cool}

C5_Witness ==
    /\ pc = "af_solved"
    /\ DOMAIN args = DemoArgs
    /\ attacks = DemoAttacks
    /\ ext = {A_cool}

\* C6: the filter returns exactly the input pairs whose attacker's priority
\* is at least the target's: equal priorities are kept, a strictly weaker
\* attacker is dropped, and nothing outside the input is returned.
C6_FilterKeepsExactlyGE ==
    pc = "af_filtered" =>
        /\ \A e \in attacks_eff :
               e \in attacks /\ args[e[1]].priority >= args[e[2]].priority
        /\ \A e \in attacks :
               /\ args[e[1]].priority = args[e[2]].priority => e \in attacks_eff
               /\ args[e[1]].priority > args[e[2]].priority => e \in attacks_eff
               /\ args[e[1]].priority < args[e[2]].priority => e \notin attacks_eff

C6_Witness ==
    /\ pc = "af_filtered"
    /\ \E e \in attacks :
           e[1] # e[2] /\ args[e[1]].priority = args[e[2]].priority
    /\ \E e \in attacks : args[e[1]].priority < args[e[2]].priority
    /\ \E e \in attacks : args[e[1]].priority > args[e[2]].priority

\* C7: the filter is idempotent: filtering the filtered set again gives the
\* same edge set.
C7_FilterIdempotent ==
    pc = "af_refiltered" => attacks_eff2 = attacks_eff

C7_Witness ==
    /\ pc = "af_refiltered"
    /\ attacks_eff # {}
    /\ attacks_eff # attacks
    /\ attacks_eff2 = attacks_eff

---------------------------------------------------------------------------
(* Claims about the planner (checked under SpecPlan) *)

StepLE(s, t) ==
    \/ s.deadline_ms < t.deadline_ms
    \/ /\ s.deadline_ms = t.deadline_ms
       /\ \/ s.priority > t.priority
          \/ s.priority = t.priority /\ s.arg_id <= t.arg_id

\* C8: order_plan's result is sorted by ascending deadline_ms, then
\* descending priority, then ascending id: consecutive steps are in
\* non-decreasing order of (deadline_ms, -priority, arg_id).
C8_PlanSorted ==
    pc = "planned" =>
        \A k \in 1..(Len(steps) - 1) : StepLE(steps[k], steps[k + 1])

C8_Witness ==
    /\ pc = "planned"
    /\ Len(steps) >= 3
    /\ \E k \in 1..(Len(steps) - 1) :
           steps[k].deadline_ms < steps[k + 1].deadline_ms
    /\ \E k \in 1..(Len(steps) - 1) :
           /\ steps[k].deadline_ms = steps[k + 1].deadline_ms
           /\ steps[k].priority > steps[k + 1].priority
    /\ \E i \in 1..(Len(ids) - 1) : ids[i] > ids[i + 1]

\* C9: order_plan does not depend on the order in which the accepted ids
\* are supplied.  Every enumeration of every id set is an input of the
\* driver; each must give the steps that the ascending enumeration of the
\* same set gives, so any two enumerations of one set give the same steps.
C9_PlanPermutationInvariant ==
    pc = "planned" => steps = order_plan(args, Ascending(Range(ids)))

C9_Witness ==
    /\ pc = "planned"
    /\ ids # Ascending(Range(ids))
    /\ Len(steps) >= 3
    /\ \E i \in 1..(Len(ids) - 1) : ids[i] > ids[i + 1]
    /\ \E k \in 1..(Len(steps) - 1) :
           /\ steps[k].deadline_ms = steps[k + 1].deadline_ms
           /\ steps[k].priority = steps[k + 1].priority

---------------------------------------------------------------------------
(* Claims about the landing orchestrator (checked under SpecLanding) *)

chosen == IF policy = "aggressive" THEN A_policy_aggr ELSE A_policy_cons

DiagnosisStepTaken ==
    /\ ok = FALSE
    /\ ~is_no_diag
    /\ pc \notin {"l_reason", "l_act", "l_verify", "l_diagnose"}
    /\ status = ""

\* C10: after the verification of the executed argument X has failed with
\* diagnosis enabled and the diagnosis step has run, the framework holds a
\* new argument D_X with a noop action and a priority above X's, the attack
\* (D_X, X) is in the effective attack set, and the recomputed accepted set
\* does not contain X.
C10_DiagnosisAttacksFailedArgument ==
    DiagnosisStepTaken =>
        /\ DiagId(chosen) \in DOMAIN args
        /\ args[DiagId(chosen)].action.name = "noop"
        /\ args[DiagId(chosen)].priority > args[chosen].priority
        /\ <<DiagId(chosen), chosen>> \in attacks
        /\ chosen \notin ext

---------------------------------------------------------------------------
(* Claims about the ablation modes in the single-shot orchestrators *)

NoDiagnosisCreated ==
    /\ \A x \in DOMAIN args : x \in Ids
    /\ attacks \subseteq attacks_raw

\* C11: with the skip-diagnosis ablation on, a failed verification is
\* terminal: the metrics record has status FAIL, no diagnosis argument or
\* attack exists, one reasoning iteration and one actuation have happened,
\* and no further step of the orchestrator is possible.
C11_NoDiagFailIsTerminal ==
    (ablation = "no_diag" /\ verified >= 1 /\ ~ok) =>
        /\ status = "FAIL"
        /\ pc \in {"l_done", "o_done"}
        /\ NoDiagnosisCreated
        /\ af_iters = 1
        /\ steps_executed = 1
        /\ Len(actuated) = 1
        /\ ~ENABLED NextRuns

C11_Witness ==
    /\ ablation = "no_diag"
    /\ verified = 1
    /\ ~ok
    /\ status = "FAIL"
    /\ pc = "l_done"

PlannedIds == {steps[k].arg_id : k \in 1..Len(steps)}

\* C12: with the bypass-solver ablation on, once a reasoning iteration has
\* completed, the accepted set that is planned and executed is the set of
\* all argument ids of the framework, not the solver's result.
C12_BypassAcceptsAll ==
    (ablation = "no_af" /\ af_iters >= 1) =>
        /\ ext = DOMAIN args
        /\ PlannedIds = DOMAIN args

ReasonedStates ==
    {"l_act", "l_verify", "l_diagnose", "l_raised_TypeError", "l_done",
     "o_solve_again", "o_act", "o_verify", "o_done", "ms_loop", "ms_done",
     "ms_raised_ValueError"}

PriorityFiltered(a, atts) ==
    {e \in atts : a[e[1]].priority >= a[e[2]].priority}

\* C13: after a reasoning iteration in which the solver ran, the attack set
\* it ran on is the set of raw attacks whose attacker has at least the
\* target's priority when the ignore-priority ablation is off, and the whole
\* raw set when it is on; the accepted set is the solver's result on it.
C13_SolverRunsOnFilteredAttacks ==
    (pc \in ReasonedStates /\ ablation # "no_af") =>
        /\ attacks = IF ablation = "no_priority" THEN attacks_raw
                     ELSE PriorityFiltered(args, attacks_raw)
        /\ ext = grounded_extension(args, attacks)

SwitchesOf(mode) ==
    [bypass_solver |-> mode = "no_af",
     skip_diagnosis |-> mode = "no_diag",
     ignore_priority |-> mode = "no_priority"]

SwitchesNow ==
    [bypass_solver |-> is_no_af,
     skip_diagnosis |-> is_no_diag,
     ignore_priority |-> is_no_priority]

LandingStates ==
    {"l_reason", "l_act", "l_verify", "l_diagnose", "l_raised_TypeError",
     "l_done"}

(* What the filter stage of the scenario yields in the all-off run. *)
AllOffFilter ==
    IF pc \in LandingStates
    THEN filter_attacks_by_priority(args, attacks_raw)
    ELSE attacks_raw

(* A switch that is off leaves its component as in the all-off run. *)
SwitchedOffComponentsUnchanged ==
    /\ (pc \in ReasonedStates /\ ablation # "no_priority") =>
            attacks_eff = AllOffFilter
    /\ (pc \in ReasonedStates /\ ablation # "no_af") =>
            ext = grounded_extension(args, attacks_eff)
    /\ (pc \in LandingStates /\ ablation # "no_diag" /\ verified >= 1 /\ ~ok) =>
            pc \in {"l_diagnose", "l_raised_TypeError"}

---------------------------------------------------------------------------
(* Claims about the multi-step queue loop *)

Popped == pc = "ms_loop" /\ iters' = iters + 1

\* C15: in a multi-step run an action is actuated only when every
\* precondition of its argument is a fact at that moment; a step popped
\* while a precondition is missing is neither actuated nor verified and
\* goes to the back of the queue, the rest of the queue keeping its order
\* and the fact set its content.  A step popped with its preconditions
\* holding leaves the queue, and is actuated when its action is one the
\* loop handles (any other action raises ValueError before actuation).
C15_PreconditionsGateExecution ==
    [][Popped =>
        LET step == Head(queue)
            pre == args[step.arg_id].pre
        IN  IF pre \subseteq facts
            THEN /\ actuated' = IF args[step.arg_id].action.name \in KnownActions
                                THEN Append(actuated, step.arg_id)
                                ELSE actuated
                 /\ queue' = Tail(queue)
            ELSE /\ actuated' = actuated
                 /\ verified' = verified
                 /\ facts' = facts
                 /\ queue' = Append(Tail(queue), step)]_vars

C15_Witness ==
    /\ pc = "ms_loop"
    /\ Len(steps) = 3
    /\ iters = 3
    /\ Len(actuated) = 2
    /\ queue = <<steps[1]>>
    /\ ~(args[steps[1].arg_id].pre \subseteq facts)

\* C16: the queue loop performs at most 4 x N pop iterations, N being the
\* length of the plan the queue was built from: the budget is 4 x N, the
\* counter never exceeds it, and no pop is possible once it is reached.
C16_PopBudget ==
    pc \in {"ms_loop", "ms_done"} =>
        /\ max_iters = 4 * Len(steps)
        /\ iters <= max_iters
        /\ (iters = max_iters => ~ENABLED MS_Pop)

C16_Witness ==
    /\ pc = "ms_done"
    /\ Len(steps) = 3
    /\ iters = 12
    /\ queue # <<>>

LoopStops ==
    /\ pc = "ms_loop"
    /\ ~(queue # <<>> /\ iters < max_iters)
    /\ pc' = "ms_done"

\* C17: when the queue loop stops with steps still queued (the budget is
\* used up) the run is reported failed with the "unmet preconditions"
\* marker; the run is reported complete only with an empty queue, and no
\* PASS is recorded while steps are queued.
C17_DeadlockReportedFailed ==
    [][/\ LoopStops =>
            emitted' = IF queue # <<>>
                       THEN "emit_fail: unmet preconditions remain"
                       ELSE "emit_ok: complete"
       /\ emitted' = "emit_ok: complete" => queue' = <<>>
       /\ status' = "PASS" => queue' = <<>>]_vars

C17_Witness ==
    /\ pc = "ms_done"
    /\ queue # <<>>
    /\ iters = max_iters
    /\ ok
    /\ emitted = "emit_fail: unmet preconditions remain"

\* C18: every argument that has been actuated is a member of the accepted
\* set of the reasoning iteration that planned it.
C18_OnlyAcceptedExecuted ==
    \A k \in 1..Len(actuated) : actuated[k] \in ext

ExecutedWithSuccess ==
    /\ Len(actuated') = Len(actuated) + 1
    /\ verified' = verified + 1
    /\ ok'

\* C19: once the queue loop runs, a step changes the fact set only by
\* adding the effects of the argument it executed with success; a re-queue,
\* a failed execution and the end of the loop leave the fact set as it is.
C19_FactsChangeOnlyBySuccess ==
    [][pc = "ms_loop" =>
        IF ExecutedWithSuccess
        THEN facts' = facts \cup args[actuated'[Len(actuated')]].effects
        ELSE facts' = facts]_vars

C19_Witness ==
    /\ pc = "ms_loop"
    /\ ok
    /\ actuated # <<>>
    /\ actuated[Len(actuated)] = A_run_tests
    /\ F_pass \in facts
    /\ "sha:expected" \in facts

ActionError ==
    /\ pc = "ms_loop"
    /\ queue # <<>> /\ iters < max_iters
    /\ args[Head(queue).arg_id].pre \subseteq facts
    /\ \/ args[Head(queue).arg_id].action.name \notin KnownActions
       \/ emitted' \in {"emit_fail: Tests failed", "emit_fail: run failed"}

RunStopped == pc \in {"ms_done", "ms_raised_ValueError"}

---------------------------------------------------------------------------
(* Claim about frameworks whose attacks name unknown ids (checked under     *)
(* SpecFramework)                                                           *)

\* C22: a framework with an attack pair naming an id that is not a key of
\* the argument mapping is rejected before an accepted set is computed,
\* under every ablation setting: no accepted set is ever computed for it.
C22_DanglingAttackRejected ==
    Dangling(args, attacks) # {} => pc # "fw_solved"

KnownWriteVerifiers == {"file_exists", "file_hash_equal"}

UnknownVerifierDispatched ==
    /\ pc = "ms_loop"
    /\ queue # <<>> /\ iters < max_iters
    /\ args[Head(queue).arg_id].pre \subseteq facts
    /\ args[Head(queue).arg_id].action.name = "write_file"
    /\ args[Head(queue).arg_id].verify.name \notin KnownWriteVerifiers

\* C26: dispatching on a verify name that is not a known check never
\* raises: the step yields a result (a skipped check) and the run is not
\* ended by an exception.
C26_UnknownVerifierSkipped ==
    [][UnknownVerifierDispatched => pc' # "ms_raised_ValueError"]_vars

---------------------------------------------------------------------------
(* Claims about the polling checks (checked under SpecPolling) *)

(* the value get_metric returned at the i-th sample of the call *)
SampleAt(c, i) == (c.metric - c.rate * c.step_calls) + c.rate * (i - 1)

\* C23: in_band and reach_threshold return PASS at the first sample that
\* satisfies their predicate, without a further call of step_fn, and FAIL
\* when no sample taken satisfies it; the returned history is the sequence
\* of all samples taken, in order; and elapsed_s is dt times the number of
\* step_fn calls made.
C23_MetricCheckResult ==
    (pc = "v_done" /\ check.name \in MetricChecks) =>
        LET n == Len(check.history)
        IN  /\ n = check.samples
            /\ \A i \in 1..n : check.history[i] = SampleAt(check, i)
            /\ check.status = "PASS" =>
                  /\ n >= 1
                  /\ Satisfies(check, check.history[n])
                  /\ \A i \in 1..(n - 1) : ~Satisfies(check, check.history[i])
                  /\ check.step_calls = n - 1
            /\ check.status = "FAIL" =>
                  /\ \A i \in 1..n : ~Satisfies(check, check.history[i])
                  /\ check.step_calls = n
            /\ check.elapsed_s = FloatTimes(check.dt, check.step_calls)

(* k with timeout_s = k x dt *)
StepsInTimeout(c) ==
    LET j == c.timeout_s.hi \div 2^27
    IN  IF c.dt = Dbl_tenth THEN 5 * j ELSE j

\* C24: a polling check called with timeout_s = k x dt ends after at most
\* k + 1 samples; the sample at elapsed time timeout_s is taken, so that a
\* FAIL result follows exactly k + 1 samples, none of which satisfied the
\* check, and a metric that satisfies the check first at the (k+1)-th
\* sample gives PASS.
C24_SampleAtTimeoutCounts ==
    (pc = "v_done") =>
        LET k == StepsInTimeout(check)
        IN  /\ check.samples <= k + 1
            /\ check.status = "FAIL" => check.samples = k + 1
            /\ (check.name \in MetricChecks /\ check.status = "FAIL") =>
                  ~Satisfies(check, SampleAt(check, k + 1))

---------------------------------------------------------------------------
(* Claim about the process checks (checked under SpecProcess) *)

\* C25: a process check whose command times out returns FAIL with a timeout
\* marker in its `error' field; no failure of the command (a timeout, or the
\* command failing to start) leaves the check as an exception; PASS is
\* returned only when the exit code is zero and, for stdout_contains and
\* stdout_regex, the required text is found in standard output.
C25_ProcessCheckResult ==
    /\ pc # "p_raised"
    /\ pc = "p_returned" =>
          /\ check.run.kind = "TimeoutExpired" =>
                /\ check.res.status = "FAIL"
                /\ check.res.error \in
                      {"timeout", "Command timed out after timeout_s seconds"}
          /\ check.res.status = "PASS" =>
                /\ check.run.kind = "completed"
                /\ check.run.returncode = 0
                /\ Contains(check.wanted, check.run.stdout)

---------------------------------------------------------------------------
(* Claim about json_field_equals (checked under SpecJson) *)

(* The value a pointer names in a document: each token is a key present in  *)
(* the object reached or an index 0 <= i < length of the array reached.     *)
RECURSIVE Names(_, _)
Names(doc, toks) ==
    IF toks = <<>> THEN {doc}
    ELSE LET tok == Head(toks)
         IN  IF doc.t = "dict" /\ tok \in DOMAIN doc.m
             THEN Names(doc.m[tok], Tail(toks))
             ELSE IF /\ doc.t = "list"
                     /\ IsIntLiteral(tok)
                     /\ IntOf(tok) >= 0
                     /\ IntOf(tok) < Len(doc.l)
             THEN Names(doc.l[IntOf(tok) + 1], Tail(toks))
             ELSE {}

\* C27: json_field_equals returns FAIL when the file is missing or the
\* pointer does not resolve in the document (absent key, index outside the
\* array, step into a scalar), whatever the expected value, null included;
\* it returns PASS only when the pointer resolves to the expected value.
C27_UnresolvedPointerFails ==
    pc = "j_returned" =>
        LET named == Names(check.data, check.pointer)
        IN  /\ (~check.exists \/ named = {}) => check.res.status = "FAIL"
            /\ check.res.status = "PASS" =>
                  /\ check.exists
                  /\ named = {check.expected}

---------------------------------------------------------------------------
(* Claim about the verifier run for a step (checked under SpecAgentOS) *)

\* C28: once an argument X has been actuated and its step decided, what
\* decided PASS or FAIL is the check named by X.verify, run with the
\* parameters of X.verify.
C28_VerifierOfExecutedArgument ==
    (pc \in {"ag_loop", "ag_done"} /\ actuated # <<>>
        /\ check # NoCheck /\ check.arg = actuated[Len(actuated)]) =>
        /\ check.name = args[check.arg].verify.name
        /\ check.params = args[check.arg].verify.params

---------------------------------------------------------------------------
(* Claims about the end of a single-shot run (checked under SpecRuns) *)

VerificationPasses ==
    /\ pc \in {"l_verify", "o_verify"}
    /\ verified' = verified + 1
    /\ ok'

RunDone == pc \in {"l_done", "o_done"}

\* C29: a verification that returns PASS ends a single-shot run with status
\* PASS; after it no diagnosis argument is created and no reasoning
\* iteration or actuation follows; and a run has status PASS only if the
\* last verification it performed returned PASS.
C29_PassEndsRun ==
    /\ [][VerificationPasses =>
            /\ status' = "PASS"
            /\ pc' \in {"l_done", "o_done"}]_vars
    /\ [][(RunDone /\ status = "PASS") =>
            /\ args' = args /\ attacks' = attacks
            /\ af_iters' = af_iters
            /\ actuated' = actuated
            /\ status' = "PASS"]_vars
    /\ [](status = "PASS" => (RunDone /\ verified >= 1 /\ ok))
    /\ []((RunDone /\ status = "PASS") => ~ENABLED NextRuns)

C29_Witness ==
    /\ pc = "l_done"
    /\ status = "PASS"
    /\ ok
    /\ verified = 1
    /\ Len(actuated) = 1
    /\ af_iters = 1

KeyOf(x) == <<args[x].deadline_ms, -args[x].priority, x>>

ActStepTaken ==
    pc \in {"l_verify", "l_diagnose", "l_raised_TypeError", "o_verify"}
    \/ (RunDone /\ ext # {})

---------------------------------------------------------------------------
(* Claim about the boundedness of diagnosis (checked under SpecLanding) *)

\* C20: diagnosis is bounded in the landing scenario: at most two reasoning
\* iterations happen; once the diagnosis step has run after a failed
\* verification, exactly one argument and exactly one attack have been
\* added, both for the diagnosis; and a run that can take no further step
\* has written a metrics record with status PASS or FAIL.
C20_DiagnosisBounded ==
    /\ af_iters <= 2
    /\ DiagnosisStepTaken =>
          /\ DOMAIN args \ Ids = {DiagId(chosen)}
          /\ {e \in attacks : e[1] \notin Ids} = {<<DiagId(chosen), chosen>>}
    /\ (pc \in LandingStates /\ ~ENABLED NextLanding) =>
          status \in {"PASS", "FAIL"}

---------------------------------------------------------------------------
(* Claim about the event log (checked under SpecRuns) *)

MajorKinds == {"sense", "arguments", "grounded_extension", "plan", "actuate",
               "verify", "diagnosis", "metrics"}

IsMajor(r) == r.kind \in MajorKinds

(* the records of the major transitions, in the order they were written *)
Major(l) == SelectSeq(l, IsMajor)

Count(l, kind) == Cardinality({i \in 1..Len(l) : l[i].kind = kind})

(* r2 may be the next major record after r1: the order sense, arguments,    *)
(* grounded_extension, plan, actuate, verify with one record each, a        *)
(* diagnosis only after a failed verify and opening the next reasoning      *)
(* iteration, and the metrics record closing the log.                       *)
Follows(r1, r2) ==
    \/ r1.kind = "sense" /\ r2.kind = "arguments"
    \/ r1.kind = "arguments" /\ r2.kind = "grounded_extension"
    \/ r1.kind = "grounded_extension" /\ r2.kind = "plan"
    \/ r1.kind = "plan" /\ r2.kind = "actuate"
    \/ r1.kind = "actuate" /\ r2.kind = "verify"
    \/ r1.kind = "verify" /\ r1.status = "FAIL" /\ r2.kind = "diagnosis"
    \/ r1.kind = "diagnosis" /\ r2.kind = "grounded_extension"
    \/ r1.kind # "metrics" /\ r2.kind = "metrics"

EventLogOrdered ==
    LET m == Major(log)
    IN  /\ m # <<>> => m[1].kind = "sense"
        /\ \A i \in 1..(Len(m) - 1) : Follows(m[i], m[i + 1])

RunEnded == pc \in {"l_done", "l_raised_TypeError", "o_done"}

EndsWithMetrics ==
    RunEnded =>
        LET m == Major(log)
        IN  /\ Count(log, "metrics") = 1
            /\ m[Len(m)].kind = "metrics"

AppendOnly ==
    [][Len(log') >= Len(log) /\ SubSeq(log', 1, Len(log)) = log]_vars

\* C31: the event log of a run is append-only; its records of the major
\* transitions come in the order sense, arguments, grounded_extension, plan,
\* actuate, verify, with exactly one grounded_extension and one plan record
\* per reasoning iteration; a diagnosis record comes only after a verify
\* record with status FAIL; and a run that has ended has written exactly one
\* metrics record, as its last major record.
C31_EventLog ==
    /\ [](EventLogOrdered /\ EndsWithMetrics)
    /\ AppendOnly

---------------------------------------------------------------------------
(* Claim about the iteration budget of the queue loop (checked under       *)
(* SpecChain)                                                              *)

(* The steps `todo' can all be executed in some order starting from the     *)
(* facts `fs', each step finding its preconditions among the facts when     *)
(* its turn comes and adding its facts on success.                          *)
RECURSIVE Schedulable(_, _, _)
Schedulable(a, fs, todo) ==
    \/ todo = {}
    \/ \E x \in todo :
          /\ a[x].pre \subseteq fs
          /\ Schedulable(a, update_facts_after_success(a[x], fs), todo \ {x})

QueuedIds == {queue[k].arg_id : k \in 1..Len(queue)}

ReportedUnmet ==
    pc = "ms_done" /\ emitted = "emit_fail: unmet preconditions remain"

\* C32: when the steps still queued can be executed in some order from the
\* facts at hand and no action or verification has failed, the loop does not
\* end with steps left in the queue and the report "unmet preconditions":
\* a schedulable plan is executed completely within the budget of four
\* iterations per step, whatever its length and queue order.
C32_SchedulablePlanDrains ==
    ReportedUnmet => ~Schedulable(args, facts, QueuedIds)

---------------------------------------------------------------------------
(* Claim about the ablation switches (checked under SpecAblation) *)

(* The characters `raw' are the name of mode w in any letter case, with     *)
(* nothing but whitespace before and after it.                              *)
NamesMode(raw, w) ==
    \E i \in 1..(Len(raw) + 1) :
        LET j == i + Len(Spell[w]) - 1
        IN  /\ j <= Len(raw)
            /\ \A k \in 1..(i - 1) : raw[k] \in Whitespace
            /\ \A k \in (j + 1)..Len(raw) : raw[k] \in Whitespace
            /\ \A k \in i..j :
                  LET c == Spell[w][k - i + 1]
                  IN  \/ raw[k] = c
                      \/ c \in DOMAIN UpperOf /\ raw[k] = UpperOf[c]

Configured(w) == environ.set /\ NamesMode(environ.value, w)

\* C33: once the configuration value has been read, at most one of
\* is_no_af, is_no_diag and is_no_priority is true, and each is true exactly
\* when the value, trimmed and lower-cased, is its mode's name; so when the
\* value is unset or names none of the four modes all three are false.
C33_OneSwitchFromOneValue ==
    pc = "ab_read" =>
        /\ ~(is_no_af /\ is_no_diag)
        /\ ~(is_no_af /\ is_no_priority)
        /\ ~(is_no_diag /\ is_no_priority)
        /\ is_no_af <=> Configured("no_af")
        /\ is_no_diag <=> Configured("no_diag")
        /\ is_no_priority <=> Configured("no_priority")
        /\ (~environ.set \/ \A w \in Ablations : ~NamesMode(environ.value, w))
              => ~is_no_af /\ ~is_no_diag /\ ~is_no_priority

C33_Witness ==
    /\ pc = "ab_read"
    /\ is_no_diag
    /\ environ.value # Spell["no_diag"]
    /\ environ.value[1] \in Whitespace

---------------------------------------------------------------------------
(* Claim about the planner's steps (checked under SpecPlan) *)

StepsFor(i) == {k \in 1..Len(steps) : steps[k].arg_id = i}

====
